---- MODULE Spec2Model ----
(***************************************************************************)
(* Model of the RAG chatbot: the start-up of RAGPipeline (embeddings,      *)
(* index load/build, generator, QA chain), the ChatbotInterface entry      *)
(* points (chat_response, advanced_chat) and RAGPipeline.generate_response *)
(* with _format_response.  Further specifications over the same variables *)
(* model the classes on their own: OllamaLLM, QwenLLM._stream, the         *)
(* from_settings constructors, utils.VectorStore, DocumentLoader,          *)
(* RAGPipeline.add_documents and overlapping advanced_chat calls.          *)
(*                                                                         *)
(* Text is modelled as a sequence of pieces: a piece is either one of the  *)
(* literals of the code's f-strings, a whitespace character, or an opaque  *)
(* word.  str.strip() removes the leading and trailing whitespace pieces.  *)
(***************************************************************************)
EXTENDS Integers, Sequences, FiniteSets, TLC

VARIABLES
    settings,        \* config.settings.settings (the shared Settings object)
    index_faiss,     \* <VECTOR_STORE_PATH>/index.faiss on disk
    documents_dir,   \* the DOCUMENTS_PATH directory on disk
    embeddings,      \* RAGPipeline.embeddings is set
    vectorstore,     \* RAGPipeline.vectorstore
    llm,             \* RAGPipeline.llm
    qa_chain,        \* RAGPipeline.qa_chain is set
    pc,              \* position of RAGPipeline.__init__ / the application
    init_error,      \* the exception that left RAGPipeline.__init__, if any
    index_origin,    \* how _load_and_process_documents obtained the index
    rag_pipeline,    \* ChatbotInterface.rag_pipeline is set
    last,            \* the chat call of this run and what it did
    ollama,          \* an OllamaLLM under construction or in use, and its daemon
    store,           \* a utils.vector_store.VectorStore and the path it saves to
    loader,          \* a utils.document_loader.DocumentLoader.split_documents call
    factory,         \* a from_settings call of one of the generator classes
    qwen,            \* a QwenLLM._stream generator and its consumer
    threads          \* advanced_chat calls running on the server's worker threads

\* the pipeline and its interface
pipelineVars == <<settings, index_faiss, documents_dir, embeddings, vectorstore,
                  llm, qa_chain, pc, init_error, index_origin, rag_pipeline, last>>

\* the classes the pipeline does not use
utilVars == <<ollama, store, loader, factory, qwen, threads>>

vars == <<pipelineVars, utilVars>>

\* the value of a variable whose object is not created in a run
Unused == [pc |-> "unused"]

----------------------------------------------------------------------------
(* Bounds of the model *)

MaxDocs == 2          \* files in the documents directory
MaxHistLen == 2       \* turns in a conversation history
MaxHistoryTurnsSetting == 2  \* largest configured MAX_HISTORY_TURNS
MaxRetrieved == 4     \* chunks handed to _format_response on its own
MaxFragments == 3     \* tokens one Ollama stream yields
MaxChunks == 3        \* chunks ever handed to one VectorStore
MaxBatch == 2         \* documents in one create/add call
MaxTextLen == 4       \* characters of a document given to split_documents
MaxResponseLen == 101 \* characters of a text QwenLLM._call returns

(* Program constants *)
RETRIEVAL_K == 4
SourcesCap == 3
DefaultTemperature == 3      \* 0.3, in tenths
DefaultMaxNewTokens == 512
StreamChunkSize == 50        \* chunk_size of QwenLLM._stream

----------------------------------------------------------------------------
(* Text *)

Whitespace == {" ", "\n"}

RECURSIVE LStrip(_)
LStrip(s) ==
    IF s # <<>> /\ Head(s) \in Whitespace THEN LStrip(Tail(s)) ELSE s

RECURSIVE RStrip(_)
RStrip(s) ==
    IF s # <<>> /\ s[Len(s)] \in Whitespace
    THEN RStrip(SubSeq(s, 1, Len(s) - 1)) ELSE s

\* str.strip()
Strip(s) == RStrip(LStrip(s))

\* str(i) for the small numbers the model formats
NumStr(i) ==
    CASE i = 0 -> "0" [] i = 1 -> "1" [] i = 2 -> "2" [] i = 3 -> "3"
      [] i = 4 -> "4" [] OTHER -> "n"

\* os.path.basename of a path given as its sequence of components
Basename(p) == IF p = <<>> THEN "" ELSE p[Len(p)]

----------------------------------------------------------------------------
(* Chunks, indexes and the documents directory *)

Chunk(src) == [hasSource |-> TRUE, source |-> src]
NoSourceChunk == [hasSource |-> FALSE, source |-> <<>>]

\* the placeholder document of _create_empty_vectorstore
PlaceholderChunk == Chunk(<<"system">>)

File(src, ext, n) == [source |-> src, ext |-> ext, nchunks |-> n]

Files ==
    { File(<<"docs", "a.txt">>, "txt", 2),
      File(<<"docs", "sub", "n.md">>, "md", 1),
      File(<<"docs", "p.pdf">>, "pdf", 1) }

SeqsUpTo(S, n) == UNION { [1..k -> S] : k \in 0..n }

Injective(s) == \A i, j \in 1..Len(s) : i # j => s[i] # s[j]

\* the directory may be absent; otherwise it holds a set of files
DocumentDirs ==
    { [exists |-> FALSE, files |-> {}] } \cup
    { [exists |-> TRUE, files |-> fs] :
        fs \in { S \in SUBSET Files : Cardinality(S) <= MaxDocs } }

\* indexes another run (or the VectorStore utility) may have left on disk
PersistedIndexes ==
    { <<>>,
      << Chunk(<<"old", "a.txt">>), NoSourceChunk >> }

NoIndexFile == [exists |-> FALSE, chunks |-> <<>>]
IndexFile(cs) == [exists |-> TRUE, chunks |-> cs]
NoVectorstore == [held |-> FALSE, chunks |-> <<>>]
Vectorstore(cs) == [held |-> TRUE, chunks |-> cs]

Errors == {"timeout", "boom"}
NoError == "none"

----------------------------------------------------------------------------
(* Start-up: RAGPipeline.__init__ and ChatbotInterface.__init__ *)

NoLlm == [kind |-> "none", temperature |-> 0, max_tokens |-> 0]

\* QwenLLM.from_settings(settings, system_prompt=...)
QwenFromSettings(st) ==
    [kind |-> "qwen", temperature |-> st.TEMPERATURE,
     max_tokens |-> st.MAX_NEW_TOKENS]

\* the documents the two DirectoryLoaders of the pipeline return:
\* every .txt file, then every .md file
RECURSIVE Listing(_)
Listing(S) ==
    IF S = {} THEN <<>>
    ELSE LET f == CHOOSE x \in S : TRUE IN <<f>> \o Listing(S \ {f})

LoadedDocuments(dir) ==
    Listing({f \in dir.files : f.ext = "txt"}) \o
    Listing({f \in dir.files : f.ext = "md"})

RECURSIVE Repeat(_, _)
Repeat(x, n) == IF n = 0 THEN <<>> ELSE <<x>> \o Repeat(x, n - 1)

\* text_splitter.split_documents: every chunk carries its document's metadata
RECURSIVE SplitDocuments(_)
SplitDocuments(docs) ==
    IF docs = <<>> THEN <<>>
    ELSE Repeat(Chunk(Head(docs).source), Head(docs).nchunks)
           \o SplitDocuments(Tail(docs))

StartupSteps == {"load", "docs", "build", "save", "placeholder", "placeholder_again"}

IndexResult(raised, vs, disk, how, failed) ==
    [raised |-> raised, vectorstore |-> vs, index_faiss |-> disk, how |-> how,
     failed |-> failed]

\* a fallback that builds an index with no chunk at all
CreateVectorstoreWithoutPlaceholder(disk, F, step, failed) ==
    IF step \in F
    THEN IndexResult(TRUE, NoVectorstore, disk, "none", failed \cup {step})
    ELSE IndexResult(FALSE, Vectorstore(<<>>), disk, "placeholder", failed)

\* _create_empty_vectorstore; `step` names this attempt, F the steps that fail
\* when attempted, `failed` the steps that failed before this one
CreateEmptyVectorstore(disk, F, step, failed) ==
    IF step \in F
    THEN IndexResult(TRUE, NoVectorstore, disk, "none", failed \cup {step})
    ELSE IndexResult(FALSE, Vectorstore(<<PlaceholderChunk>>), disk,
                     "placeholder", failed)

\* the body of the try block of _load_and_process_documents (lines 199-243);
\* raised means an exception reached the except clause of line 245
TryBuildIndex(disk, dir, F) ==
    LET documents == LoadedDocuments(dir)
        splits == SplitDocuments(documents)
    IN  IF "docs" \in F
        THEN IndexResult(TRUE, NoVectorstore, disk, "none", {"docs"})
        ELSE IF documents = <<>>
        THEN CreateEmptyVectorstore(disk, F, "placeholder", {})
        ELSE IF splits = <<>> \/ "build" \in F
        THEN IndexResult(TRUE, NoVectorstore, disk, "none", {"build"})
        ELSE IF "save" \in F
        THEN IndexResult(TRUE, Vectorstore(splits), disk, "built", {"save"})
        ELSE IndexResult(FALSE, Vectorstore(splits), IndexFile(splits), "built", {})

\* the except clause of _load_and_process_documents (lines 245-247): whatever
\* was raised in the try block, the placeholder index replaces the vectorstore
BuildExcept(tried, disk, F) ==
    IF ~tried.raised THEN tried
    ELSE CreateEmptyVectorstore(disk, F,
            IF "placeholder" \in tried.failed
            THEN "placeholder_again" ELSE "placeholder", tried.failed)

\* RAGPipeline._load_and_process_documents
LoadAndProcessDocuments(disk, dir, F) ==
    IF disk.exists
    THEN IF "load" \in F
         THEN IndexResult(TRUE, NoVectorstore, disk, "none", {"load"})
         ELSE IndexResult(FALSE, Vectorstore(disk.chunks), disk, "loaded", {})
    ELSE IF ~dir.exists
    THEN CreateEmptyVectorstore(disk, F, "placeholder", {})
    ELSE BuildExcept(TryBuildIndex(disk, dir, F), disk, F)


\* the values of MODEL_PROVIDER: the default, and the local-inference one
Providers == {"ollama", "huggingface"}

SettingsValues ==
    [MODEL_PROVIDER : Providers,
     USE_CONVERSATION_HISTORY : BOOLEAN,
     MAX_HISTORY_TURNS : 0..MaxHistoryTurnsSetting,
     TEMPERATURE : {DefaultTemperature},
     MAX_NEW_TOKENS : {DefaultMaxNewTokens}]

\* an _initialize_pipeline that logs the failure of a step and returns
InitializeSwallow(e) ==
    /\ pc' = "constructed"
    /\ init_error' = e

\* the except/raise of RAGPipeline._initialize_pipeline (lines 138-140)
InitializeRaise(e) ==
    /\ pc' = "raised"
    /\ init_error' = e

\* step 1, RAGPipeline._setup_embeddings
SetupEmbeddings ==
    /\ UNCHANGED utilVars
    /\ pc = "start"
    /\ \/ /\ embeddings' = TRUE
          /\ pc' = "embeddings_done"
          /\ UNCHANGED init_error
       \/ /\ InitializeRaise("embeddings")
          /\ UNCHANGED embeddings
    /\ UNCHANGED <<settings, index_faiss, documents_dir, vectorstore, llm,
                   qa_chain, index_origin, rag_pipeline, last>>

\* step 2, RAGPipeline._load_and_process_documents
LoadDocuments ==
    /\ UNCHANGED utilVars
    /\ pc = "embeddings_done"
    /\ \E F \in SUBSET StartupSteps :
         LET r == LoadAndProcessDocuments(index_faiss, documents_dir, F)
         IN  /\ vectorstore' = r.vectorstore
             /\ index_faiss' = r.index_faiss
             /\ index_origin' = [index_origin EXCEPT !.how = r.how, !.failed = r.failed]
             /\ IF r.raised
                THEN InitializeRaise("documents")
                ELSE pc' = "documents_done" /\ UNCHANGED init_error
    /\ UNCHANGED <<settings, documents_dir, embeddings, llm, qa_chain,
                   rag_pipeline, last>>

\* step 3, RAGPipeline._setup_llm
SetupLlm ==
    /\ UNCHANGED utilVars
    /\ pc = "documents_done"
    /\ \/ /\ llm' = QwenFromSettings(settings)
          /\ pc' = "llm_done"
          /\ UNCHANGED init_error
       \/ /\ InitializeRaise("llm")
          /\ UNCHANGED llm
    /\ UNCHANGED <<settings, index_faiss, documents_dir, embeddings, vectorstore,
                   qa_chain, index_origin, rag_pipeline, last>>

\* step 4, RAGPipeline._setup_qa_chain; on success __init__ returns
SetupQaChain ==
    /\ UNCHANGED utilVars
    /\ pc = "llm_done"
    /\ \/ /\ qa_chain' = TRUE
          /\ pc' = "constructed"
          /\ UNCHANGED init_error
       \/ /\ InitializeRaise("qa_chain")
          /\ UNCHANGED qa_chain
    /\ UNCHANGED <<settings, index_faiss, documents_dir, embeddings, vectorstore,
                   llm, index_origin, rag_pipeline, last>>

\* ChatbotInterface._initialize_pipeline: keeps the pipeline, or catches the
\* exception and keeps None; then the interface is created and launched
InterfaceInitializePipeline ==
    /\ UNCHANGED utilVars
    /\ pc \in {"constructed", "raised"}
    /\ rag_pipeline' = (pc = "constructed")
    /\ pc' = "serving"
    /\ UNCHANGED <<settings, index_faiss, documents_dir, embeddings, vectorstore,
                   llm, qa_chain, init_error, index_origin, last>>

----------------------------------------------------------------------------
(* A chat request: RAGPipeline.generate_response and its callers *)

Min(a, b) == IF a < b THEN a ELSE b

\* the messages a user may send: empty, blank, and a question
Messages == { <<>>, <<" ">>, <<"why", " ", "fever">> }

\* the i-th turn (question, answer) of the conversation so far
Turn(i) == << <<"q", NumStr(i)>>, <<"a", NumStr(i)>> >>
Conversation(n) == [i \in 1..n |-> Turn(i)]

\* conversation_history as passed: None, or a list of turns
NoHistory == [given |-> FALSE, turns |-> <<>>]
History(ts) == [given |-> TRUE, turns |-> ts]
Histories == { History(Conversation(n)) : n \in 0..MaxHistLen }

\* conversation_history[-n:] (n >= 0; -0 is 0, so n = 0 slices from the start)
RecentHistory(turns, n) ==
    IF n = 0 \/ n >= Len(turns) THEN turns
    ELSE SubSeq(turns, Len(turns) - n + 1, Len(turns))

\* "\n".join(f"Previous Q: {q}\nPrevious A: {a}" for q, a in recent_history)
RECURSIVE HistoryContext(_)
HistoryContext(turns) ==
    IF turns = <<>> THEN <<>>
    ELSE <<"Previous Q: ">> \o Head(turns)[1] \o <<"\nPrevious A: ">>
           \o Head(turns)[2]
           \o (IF Len(turns) > 1 THEN <<"\n">> ELSE <<>>)
           \o HistoryContext(Tail(turns))

HistoryHeader == "Conversation History:\n"

\* formatted_query of generate_response (lines 378-390)
FormatQuery(st, query, hist) ==
    IF st.USE_CONVERSATION_HISTORY /\ hist.given /\ Len(hist.turns) > 0
    THEN <<HistoryHeader>>
           \o HistoryContext(RecentHistory(hist.turns, st.MAX_HISTORY_TURNS))
           \o <<"\n\nCurrent Question: ">> \o query
    ELSE query

\* the text RetrievalQA hands to the retriever, which embeds it: the value of
\* the "query" key that generate_response passes to qa_chain.invoke
RetrievalQuery(query, formatted_query) == formatted_query

\* the (position) rankings a similarity search for k chunks may return
Rankings(n, k) ==
    { r \in [1..Min(n, k) -> 1..n] : Injective(r) }

Retrieve(chunks, ranking) == [i \in 1..Len(ranking) |-> chunks[ranking[i]]]

PageContent(c) == <<"<chunk ">> \o c.source \o <<">">>

\* "\n\n".join(doc.page_content for doc in docs)
RECURSIVE Context(_)
Context(docs) ==
    IF docs = <<>> THEN <<>>
    ELSE PageContent(Head(docs))
           \o (IF Len(docs) > 1 THEN <<"\n\n">> ELSE <<>>)
           \o Context(Tail(docs))

\* the prompt template of _setup_qa_chain (lines 328-333)
QaPrompt(docs, question) ==
    <<"Use the following pieces of context ...\n\n">> \o Context(docs)
      \o <<"\n\nQuestion: ">> \o question \o <<"\nAnswer:">>

\* QwenLLM._format_prompt (the pipeline always sets a system prompt)
QwenFormatPrompt(prompt) ==
    <<"System: ", "You are a helpful AI assistant...", "\n\nUser: ">> \o prompt
      \o <<"\n\nAssistant:">>

\* what the text-generation pipeline does with one request
GenTexts == { <<>>, <<" ", "infection", "\n">> }
GenOutcomes ==
    { [kind |-> "text", text |-> t, err |-> NoError] : t \in GenTexts } \cup
    { [kind |-> "empty", text |-> <<>>, err |-> NoError] } \cup
    { [kind |-> "fail", text |-> <<>>, err |-> e] : e \in Errors }

\* a _call that lets the exception of the text-generation pipeline escape
QwenCallRaises(prompt, gen) ==
    IF gen.kind = "fail"
    THEN [raised |-> TRUE, error |-> gen.err, text |-> <<>>]
    ELSE IF gen.kind = "empty"
    THEN [raised |-> FALSE, error |-> NoError, text |-> <<"No response generated">>]
    ELSE [raised |-> FALSE, error |-> NoError, text |-> Strip(gen.text)]

\* QwenLLM._call (lines 147-175): never raises
QwenCall(prompt, gen) ==
    IF gen.kind = "fail"
    THEN [raised |-> FALSE, error |-> NoError,
          text |-> <<"Error: Failed to generate response. ", gen.err>>]
    ELSE IF gen.kind = "empty"
    THEN [raised |-> FALSE, error |-> NoError, text |-> <<"No response generated">>]
    ELSE [raised |-> FALSE, error |-> NoError, text |-> Strip(gen.text)]

SourcesHeader == "\n\nSources:\n"

\* doc.metadata.get('source', 'Unknown')
SourceOf(doc) == IF doc.hasSource THEN doc.source ELSE <<"Unknown">>

\* os.path.basename(source) if source != 'Unknown' else 'System'
Filename(source) == IF source # <<"Unknown">> THEN Basename(source) ELSE "System"

\* the loop without the seen_sources test
RECURSIVE SourceLinesNoDedup(_, _, _)
SourceLinesNoDedup(docs, i, seen_sources) ==
    IF docs = <<>> THEN <<>>
    ELSE <<NumStr(i), ". ", Filename(SourceOf(Head(docs))), "\n">>
           \o SourceLinesNoDedup(Tail(docs), i + 1, seen_sources)

\* the loop of _format_response (lines 432-438) from enumerate index i on
RECURSIVE SourceLines(_, _, _)
SourceLines(docs, i, seen_sources) ==
    IF docs = <<>> THEN <<>>
    ELSE LET source == SourceOf(Head(docs))
         IN  IF source \notin seen_sources
             THEN <<NumStr(i), ". ", Filename(source), "\n">>
                    \o SourceLines(Tail(docs), i + 1, seen_sources \cup {source})
             ELSE SourceLines(Tail(docs), i + 1, seen_sources)

\* a _format_response that appends the section whatever was retrieved
FormatResponseAlwaysSources(response, sources) ==
    Strip(response) \o <<SourcesHeader>>
      \o SourceLines(SubSeq(sources, 1, Min(SourcesCap, Len(sources))), 1, {})

\* RAGPipeline._format_response
FormatResponse(response, sources) ==
    IF Len(sources) > 0
    THEN Strip(response) \o <<SourcesHeader>>
           \o SourceLines(SubSeq(sources, 1, Min(SourcesCap, Len(sources))), 1, {})
    ELSE Strip(response)

ApologyPrefix == "I apologize, but I encountered an error while processing your question: "
NotReadyMessage == <<"Sorry, the system is not ready yet. Please try again in a moment.">>
NotInitializedMessage == <<"Sorry, the chatbot is not properly initialized. Please check the logs.">>
EnterMessage == <<"Please enter a question or message.">>

\* what one request meets: whether the retrieval fails, the ranking it returns
\* otherwise, and what the generator does
Environments(chunks) ==
    { [retrieval |-> "fail", error |-> e, ranking |-> <<>>,
       gen |-> [kind |-> "empty", text |-> <<>>, err |-> NoError]] : e \in Errors }
    \cup
    { [retrieval |-> "ok", error |-> NoError, ranking |-> r, gen |-> g] :
        r \in Rankings(Len(chunks), RETRIEVAL_K), g \in GenOutcomes }

\* the sampling arguments of a request that reached no text-generation call
NoGeneration == [temperature |-> 0, max_new_tokens |-> 0]

Outcome(kind, raised, error, result) ==
    [kind |-> kind, raised |-> raised, error |-> error, result |-> result,
     formatted_query |-> <<>>, embedded |-> <<>>, retrievals |-> 0,
     generations |-> 0, retrieved |-> <<>>, prompt |-> <<>>, answer |-> <<>>,
     failure |-> "none", used |-> NoGeneration]

\* the arguments QwenLLM._call gives the text-generation pipeline (lines
\* 153-160): the fields the instance got when it was constructed
GenerationKwargs(l) ==
    [temperature |-> l.temperature, max_new_tokens |-> l.max_tokens]

\* the outcome of a request, with what its generation (if any) was run with
Generated(r, l) ==
    IF r.generations > 0 THEN [r EXCEPT !.used = GenerationKwargs(l)] ELSE r

\* the try block of generate_response (lines 376-403); raised means an
\* exception reached the except clause of line 405
GenerateTry(vs, st, query, hist, env) ==
    LET formatted_query == FormatQuery(st, query, hist)
        embedded == RetrievalQuery(query, formatted_query)
        docs == Retrieve(vs.chunks, env.ranking)
        prompt == QaPrompt(docs, formatted_query)
        called == QwenCall(prompt, env.gen)
    IN  IF env.retrieval = "fail"
        THEN [Outcome("raised", TRUE, env.error, <<>>) EXCEPT
                 !.formatted_query = formatted_query, !.embedded = embedded,
                 !.retrievals = 1, !.failure = "retrieval"]
        ELSE IF called.raised
        THEN [Outcome("raised", TRUE, called.error, <<>>) EXCEPT
                 !.formatted_query = formatted_query, !.embedded = embedded,
                 !.retrievals = 1, !.generations = 1,
                 !.retrieved = docs, !.prompt = QwenFormatPrompt(prompt),
                 !.failure = "generator"]
        ELSE [Outcome("formatted", FALSE, NoError,
                      FormatResponse(Strip(called.text), docs)) EXCEPT
                 !.formatted_query = formatted_query, !.embedded = embedded,
                 !.retrievals = 1, !.generations = 1,
                 !.retrieved = docs, !.prompt = QwenFormatPrompt(prompt),
                 !.answer = called.text,
                 !.failure = IF env.gen.kind = "fail" THEN "generator" ELSE "none",
                 !.error = env.gen.err]

\* an except clause that re-raises
GenerateExceptReraise(tried) == tried

\* the except clause of generate_response (lines 405-407)
GenerateExcept(tried) ==
    IF tried.raised
    THEN [tried EXCEPT !.kind = "apology", !.raised = FALSE,
                       !.result = <<ApologyPrefix, tried.error>>]
    ELSE tried

\* RAGPipeline.generate_response
GenerateResponse(ready, vs, st, query, hist, env) ==
    IF ~ready
    THEN Outcome("not_ready", FALSE, NoError, NotReadyMessage)
    ELSE GenerateExcept(GenerateTry(vs, st, query, hist, env))

\* a chat_response without the `if not self.rag_pipeline` test
ChatResponseUnchecked(pipeline, ready, vs, st, message, hist, env) ==
    IF Strip(message) = <<>>
    THEN Outcome("enter_message", FALSE, NoError, EnterMessage)
    ELSE GenerateResponse(ready, vs, st, message, hist, env)

\* ChatbotInterface.chat_response
ChatResponseResult(pipeline, ready, vs, st, message, hist, env) ==
    IF ~pipeline
    THEN Outcome("not_initialized", FALSE, NoError, NotInitializedMessage)
    ELSE IF Strip(message) = <<>>
    THEN Outcome("enter_message", FALSE, NoError, EnterMessage)
    ELSE LET r == GenerateResponse(ready, vs, st, message, hist, env)
         IN  IF r.raised
             THEN [r EXCEPT !.kind = "ui_error", !.raised = FALSE,
                            !.result = <<"Sorry, I encountered an error: ", r.error>>]
             ELSE r

\* the settings advanced_chat installs for the duration of the call
AdvancedSettings(st, temperature, max_tokens, use_history) ==
    [st EXCEPT !.TEMPERATURE = temperature, !.MAX_NEW_TOKENS = max_tokens,
               !.USE_CONVERSATION_HISTORY = use_history]

\* create_advanced_interface.advanced_chat, up to the value it shows
AdvancedChatResult(pipeline, ready, vs, st, message, hist, temperature, max_tokens, use_history, env) ==
    IF ~pipeline
    THEN Outcome("not_initialized", FALSE, NoError, <<"Chatbot not initialized">>)
    ELSE LET r == GenerateResponse(ready, vs,
                     AdvancedSettings(st, temperature, max_tokens, use_history),
                     message, IF use_history THEN hist ELSE NoHistory, env)
         IN  IF r.raised
             THEN [r EXCEPT !.kind = "ui_error",
                            !.result = <<"Error: ", r.error>>]
             ELSE r

\* an advanced_chat without the three restoring assignments
AdvancedChatNoRestore(st, temperature, max_tokens, use_history, r) ==
    IF r.kind = "not_initialized" THEN st
    ELSE AdvancedSettings(st, temperature, max_tokens, use_history)

\* the settings advanced_chat leaves behind: untouched when it returns at
\* line 199; restored at lines 216-218 when generate_response returned; as
\* set at lines 207-209 when generate_response raised
AdvancedChatSettings(st, temperature, max_tokens, use_history, r) ==
    IF r.kind = "not_initialized" THEN st
    ELSE IF r.raised
    THEN AdvancedSettings(st, temperature, max_tokens, use_history)
    ELSE st

SliderTemperatures == {7}
SliderMaxTokens == {128}

NoParams == [temperature |-> 0, max_tokens |-> 0, use_history |-> FALSE]
Params == [temperature : SliderTemperatures, max_tokens : SliderMaxTokens,
           use_history : BOOLEAN]

Call(entry, message, hist, params, outcome) ==
    [entry |-> entry, message |-> message, history |-> hist, params |-> params,
     outcome |-> outcome]

Pending == Outcome("pending", FALSE, NoError, <<>>)

\* a message arrives at one of the entry points.  No request changes the
\* pipeline, so the run follows one request from its arrival to its return
Submit ==
    /\ UNCHANGED utilVars
    /\ pc = "serving"
    /\ last.entry = "none"
    /\ \E message \in Messages :
         \/ \E hist \in Histories :
              last' = Call("chat_response", message, hist, NoParams, Pending)
         \/ \E hist \in Histories, params \in Params :
              last' = Call("advanced_chat", message, hist, params, Pending)
         \/ /\ rag_pipeline
            /\ last' = Call("generate_response", message, NoHistory, NoParams, Pending)
    /\ UNCHANGED <<settings, index_faiss, documents_dir, embeddings, vectorstore,
                   llm, qa_chain, pc, init_error, index_origin, rag_pipeline>>

ChatResponse ==
    /\ UNCHANGED utilVars
    /\ last.outcome.kind = "pending"
    /\ last.entry = "chat_response"
    /\ \E env \in Environments(vectorstore.chunks) :
         last' = [last EXCEPT !.outcome =
                     Generated(ChatResponseResult(rag_pipeline, qa_chain,
                         vectorstore, settings, last.message, last.history, env),
                         llm)]
    /\ UNCHANGED <<settings, index_faiss, documents_dir, embeddings, vectorstore,
                   llm, qa_chain, pc, init_error, index_origin, rag_pipeline>>

\* advanced_chat: the settings are restored on the normal path only; an
\* exception from generate_response skips the restore (lines 215-225)
AdvancedChat ==
    /\ UNCHANGED utilVars
    /\ last.outcome.kind = "pending"
    /\ last.entry = "advanced_chat"
    /\ \E env \in Environments(vectorstore.chunks) :
         LET r == AdvancedChatResult(rag_pipeline, qa_chain, vectorstore,
                     settings, last.message, last.history,
                     last.params.temperature, last.params.max_tokens,
                     last.params.use_history, env)
         IN  /\ last' = [last EXCEPT !.outcome =
                                Generated([r EXCEPT !.raised = FALSE], llm)]
             /\ settings' = AdvancedChatSettings(settings, last.params.temperature,
                                last.params.max_tokens, last.params.use_history, r)
    /\ UNCHANGED <<index_faiss, documents_dir, embeddings, vectorstore,
                   llm, qa_chain, pc, init_error, index_origin, rag_pipeline>>

\* a script calling rag.generate_response(question) on a constructed pipeline
DirectGenerate ==
    /\ UNCHANGED utilVars
    /\ last.outcome.kind = "pending"
    /\ last.entry = "generate_response"
    /\ \E env \in Environments(vectorstore.chunks) :
         last' = [last EXCEPT !.outcome =
                     Generated(GenerateResponse(qa_chain, vectorstore, settings,
                         last.message, last.history, env), llm)]
    /\ UNCHANGED <<settings, index_faiss, documents_dir, embeddings, vectorstore,
                   llm, qa_chain, pc, init_error, index_origin, rag_pipeline>>

\* the process ends and app.py is started again: the files on disk stay, the
\* documents directory may have gained or lost files in between, and
\* RAGPipeline.__init__ starts from its four empty fields (lines 87-90).
\* No request changes what a restart finds, so the model restarts the runs
\* that have not taken their request yet; and it restarts the runs that made
\* the placeholder index: a run that loaded or saved an index is followed by
\* one that finds an index file, which the initial states already hold
Restart ==
    /\ UNCHANGED utilVars
    /\ pc = "serving"
    /\ last.entry = "none"
    /\ index_origin.how = "placeholder"
    /\ documents_dir' \in DocumentDirs
    /\ embeddings' = FALSE
    /\ vectorstore' = NoVectorstore
    /\ llm' = NoLlm
    /\ qa_chain' = FALSE
    /\ pc' = "start"
    /\ init_error' = NoError
    /\ index_origin' = [how |-> "none", failed |-> {}, disk_before |-> index_faiss]
    /\ rag_pipeline' = FALSE
    /\ last' = Call("none", <<>>, NoHistory, NoParams, Outcome("none", FALSE, NoError, <<>>))
    /\ UNCHANGED <<settings, index_faiss>>

Init ==
    /\ ollama = Unused
    /\ store = Unused
    /\ loader = Unused
    /\ factory = Unused
    /\ qwen = Unused
    /\ threads = Unused
    /\ settings \in SettingsValues
    /\ index_faiss \in {NoIndexFile} \cup {IndexFile(cs) : cs \in PersistedIndexes}
    /\ documents_dir \in DocumentDirs
    /\ embeddings = FALSE
    /\ vectorstore = NoVectorstore
    /\ llm = NoLlm
    /\ qa_chain = FALSE
    /\ pc = "start"
    /\ init_error = NoError
    /\ index_origin = [how |-> "none", failed |-> {}, disk_before |-> index_faiss]
    /\ rag_pipeline = FALSE
    /\ last = Call("none", <<>>, NoHistory, NoParams, Outcome("none", FALSE, NoError, <<>>))

Next ==
    \/ SetupEmbeddings
    \/ LoadDocuments
    \/ SetupLlm
    \/ SetupQaChain
    \/ InterfaceInitializePipeline
    \/ Submit
    \/ ChatResponse
    \/ AdvancedChat
    \/ DirectGenerate
    \/ Restart

Spec == Init /\ [][Next]_vars

----------------------------------------------------------------------------
(* _format_response on its own: every response text and every ordered list *)
(* of up to MaxRetrieved chunks drawn from ChunkPool                       *)

ChunkPool ==
    { Chunk(<<"docs", "a.txt">>), Chunk(<<"old", "a.txt">>),
      Chunk(<<"docs", "sub", "n.md">>), NoSourceChunk }

Responses == { <<>>, <<" ", "infection", "\n">> }

InitFormat ==
    /\ ollama = Unused
    /\ store = Unused
    /\ loader = Unused
    /\ factory = Unused
    /\ qwen = Unused
    /\ threads = Unused
    /\ settings = [MODEL_PROVIDER |-> "ollama",
                   USE_CONVERSATION_HISTORY |-> TRUE, MAX_HISTORY_TURNS |-> 0,
                   TEMPERATURE |-> DefaultTemperature,
                   MAX_NEW_TOKENS |-> DefaultMaxNewTokens]
    /\ index_faiss = NoIndexFile
    /\ documents_dir = [exists |-> FALSE, files |-> {}]
    /\ embeddings = FALSE
    /\ vectorstore = NoVectorstore
    /\ llm = NoLlm
    /\ qa_chain = FALSE
    /\ pc = "format"
    /\ init_error = NoError
    /\ index_origin = [how |-> "none", failed |-> {}, disk_before |-> NoIndexFile]
    /\ rag_pipeline = FALSE
    /\ last = Call("none", <<>>, NoHistory, NoParams, Outcome("none", FALSE, NoError, <<>>))

FormatResponseCall ==
    /\ UNCHANGED utilVars
    /\ pc = "format"
    /\ last.entry = "none"
    /\ \E response \in Responses, sources \in SeqsUpTo(ChunkPool, MaxRetrieved) :
         last' = Call("_format_response", response, NoHistory, NoParams,
                      [Outcome("formatted", FALSE, NoError,
                               FormatResponse(response, sources))
                         EXCEPT !.retrieved = sources, !.answer = response])
    /\ UNCHANGED <<settings, index_faiss, documents_dir, embeddings, vectorstore,
                   llm, qa_chain, pc, init_error, index_origin, rag_pipeline>>

NextFormat == FormatResponseCall

SpecFormat == InitFormat /\ [][NextFormat]_vars

----------------------------------------------------------------------------
(* OllamaLLM: construction (_verify_model) and _stream, against a daemon   *)

\* the identifier an OllamaLLM is constructed with
OllamaModels == {"deepseek-r1:7b", "llama3"}

\* the entries of the daemon's catalog, in the formats _verify_model reads:
\* an object with .model, an object with .name, or a dict
CatalogEntries ==
    { [fmt |-> "model", id |-> "deepseek-r1:7b"],
      [fmt |-> "name", id |-> "llama3:latest"],
      [fmt |-> "dict", id |-> "llama3"] }

\* the name _verify_model extracts from one catalog entry (lines 87-96)
EntryName(entry) == entry.id

\* available_models
AvailableModels(models) == { EntryName(entry) : entry \in models }

\* a _verify_model that pulls whatever the catalog holds
AlwaysPull(model, available_models) == TRUE

\* `if self.model not in available_models` (line 98)
NeedsPull(model, available_models) == model \notin available_models

\* a _stream whose except clause lets the exception go
StreamExceptReraise(o, e) ==
    [o EXCEPT !.pc = "stream_raised", !.error = e, !.failed = TRUE]

\* the except clause of _stream (lines 235-237): one error fragment, then the
\* generator returns
StreamExcept(o, e) ==
    [o EXCEPT !.pc = "stream_done", !.failed = TRUE,
              !.fragments = Append(@, "Error: Failed to stream response. ...")]

\* OllamaLLM(model=...): pydantic fields set, ollama.Client created
InitOllama ==
    /\ settings = [MODEL_PROVIDER |-> "ollama",
                   USE_CONVERSATION_HISTORY |-> TRUE, MAX_HISTORY_TURNS |-> 0,
                   TEMPERATURE |-> DefaultTemperature,
                   MAX_NEW_TOKENS |-> DefaultMaxNewTokens]
    /\ index_faiss = NoIndexFile
    /\ documents_dir = [exists |-> FALSE, files |-> {}]
    /\ embeddings = FALSE
    /\ vectorstore = NoVectorstore
    /\ llm = NoLlm
    /\ qa_chain = FALSE
    /\ pc = "ollama"
    /\ init_error = NoError
    /\ index_origin = [how |-> "none", failed |-> {}, disk_before |-> NoIndexFile]
    /\ rag_pipeline = FALSE
    /\ last = Call("none", <<>>, NoHistory, NoParams, Outcome("none", FALSE, NoError, <<>>))
    /\ store = Unused
    /\ loader = Unused
    /\ factory = Unused
    /\ qwen = Unused
    /\ threads = Unused
    /\ \E model \in OllamaModels, catalog \in SUBSET CatalogEntries :
         ollama = [pc |-> "verify", model |-> model, catalog |-> catalog,
                   requests |-> <<>>, listed |-> {}, pull |-> "none",
                   instance |-> FALSE, error |-> NoError,
                   fragments |-> <<>>, failed |-> FALSE]

\* _verify_model up to the pull: self.client.list(), then the membership test
OllamaVerifyList ==
    /\ ollama.pc = "verify"
    /\ \/ \E e \in Errors :
            ollama' = [ollama EXCEPT !.requests = Append(@, "list"),
                                     !.pc = "raised", !.error = e]
       \/ LET available_models == AvailableModels(ollama.catalog)
          IN  ollama' =
                IF NeedsPull(ollama.model, available_models)
                THEN [ollama EXCEPT !.requests = Append(@, "list") \o <<"pull">>,
                                    !.listed = available_models,
                                    !.pull = "pending", !.pc = "pulling"]
                ELSE [ollama EXCEPT !.requests = Append(@, "list"),
                                    !.listed = available_models,
                                    !.pc = "constructed", !.instance = TRUE]
    /\ UNCHANGED <<pipelineVars, store, loader, factory, qwen, threads>>

\* self.client.pull(self.model) returns or raises; then __init__ returns
OllamaVerifyPull ==
    /\ ollama.pc = "pulling"
    /\ \/ \E e \in Errors :
            ollama' = [ollama EXCEPT !.pull = "failed", !.pc = "raised", !.error = e]
       \/ ollama' = [ollama EXCEPT !.pull = "ok", !.pc = "constructed",
                                   !.instance = TRUE,
                                   !.catalog = @ \cup {[fmt |-> "model", id |-> ollama.model]}]
    /\ UNCHANGED <<pipelineVars, store, loader, factory, qwen, threads>>

\* the first next() on _stream(prompt): the request is sent
OllamaStreamStart ==
    /\ ollama.pc = "constructed"
    /\ ollama' = [ollama EXCEPT !.pc = "streaming", !.requests = Append(@, "generate")]
    /\ UNCHANGED <<pipelineVars, store, loader, factory, qwen, threads>>

\* one turn of `for chunk in self.client.generate(...)`: a token is yielded,
\* the response ends, or the transport fails
OllamaStreamStep ==
    /\ ollama.pc = "streaming"
    /\ \/ /\ Len(ollama.fragments) < MaxFragments
          /\ ollama' = [ollama EXCEPT !.fragments = Append(@, "token")]
       \/ ollama' = [ollama EXCEPT !.pc = "stream_done"]
       \/ \E e \in Errors : ollama' = StreamExcept(ollama, e)
    /\ UNCHANGED <<pipelineVars, store, loader, factory, qwen, threads>>

NextOllama ==
    \/ OllamaVerifyList
    \/ OllamaVerifyPull
    \/ OllamaStreamStart
    \/ OllamaStreamStep

SpecOllama == InitOllama /\ [][NextOllama]_vars

----------------------------------------------------------------------------
(* utils.vector_store.VectorStore over a FAISS index and one save path     *)

\* the documents and texts handed to the store
DocPool == { [page_content |-> "x", metadata |-> "a.txt"] }
TextPool == {"y"}
Queries == {"x", "y"}

\* Document(page_content=text, metadata={}) of FAISS.from_texts / add_texts
TextDocument(text) == [page_content |-> text, metadata |-> "none"]

\* self.embeddings on a text
Embed(text) == <<"vec", text>>

\* self.vector_store: None, or a FAISS object holding, in insertion order,
\* the vector, the docstore id and the document of every chunk
NoFaiss == [held |-> FALSE, entries |-> <<>>]
Faiss(entries) == [held |-> TRUE, entries |-> entries]

\* the entries of documents that get the ids first, first + 1, ...
NewEntries(documents, first) ==
    [i \in 1..Len(documents) |->
        [id |-> first + i - 1, doc |-> documents[i],
         vec |-> Embed(documents[i].page_content)]]

Ids(entries) == { entries[i].id : i \in DOMAIN entries }

\* the save path: absent, a directory without index, or index.faiss (the
\* vectors) and index.pkl (the docstore and the index-to-id list)
NoPath == [exists |-> FALSE, has_index |-> FALSE, faiss |-> <<>>, pkl |-> <<>>]
EmptyDir == [exists |-> TRUE, has_index |-> FALSE, faiss |-> <<>>, pkl |-> <<>>]

\* FAISS.save_local
SaveLocal(entries) ==
    [exists |-> TRUE, has_index |-> TRUE,
     faiss |-> [i \in DOMAIN entries |-> entries[i].vec],
     pkl |-> [i \in DOMAIN entries |-> [id |-> entries[i].id, doc |-> entries[i].doc]]]

\* FAISS.load_local
LoadLocal(disk) ==
    Faiss([i \in DOMAIN disk.pkl |->
             [id |-> disk.pkl[i].id, doc |-> disk.pkl[i].doc, vec |-> disk.faiss[i]]])

\* distance of a stored vector to the embedded query
Distance(query, vec) == IF vec = Embed(query) THEN 0 ELSE 1

\* FAISS.similarity_search: the k nearest, ties in insertion order
FaissSearch(entries, query, k) ==
    LET near == SelectSeq(entries, LAMBDA e : Distance(query, e.vec) = 0)
        far == SelectSeq(entries, LAMBDA e : Distance(query, e.vec) = 1)
        ranked == near \o far
    IN  SubSeq(ranked, 1, Min(k, Len(ranked)))

\* VectorStore.similarity_search
SimilaritySearch(index, query, k) ==
    IF ~index.held THEN <<>> ELSE FaissSearch(index.entries, query, k)

\* VectorStore.get_vector_count
GetVectorCount(index) == IF ~index.held THEN 0 ELSE Len(index.entries)

\* what a method did: its return value, whether an exception left it, why it
\* returned False, and the index and path afterwards
Done(op, ok, cause, index, disk) ==
    [op |-> op, ok |-> ok, raised |-> FALSE, cause |-> cause, index |-> index,
     disk |-> disk]

\* VectorStore.create_from_documents; fails is the outcome of the embedding
CreateFromDocuments(index, disk, documents, first, fails) ==
    IF documents = <<>> THEN Done("create", FALSE, "empty", index, disk)
    ELSE IF fails THEN Done("create", FALSE, "error", index, disk)
    ELSE Done("create", TRUE, "none", Faiss(NewEntries(documents, first)), disk)

\* an add_documents that builds a new index from the documents
AddDocumentsReplacing(index, disk, documents, first, fails) ==
    IF documents = <<>> THEN Done("add", FALSE, "empty", index, disk)
    ELSE IF fails THEN Done("add", FALSE, "error", index, disk)
    ELSE Done("add", TRUE, "none", Faiss(NewEntries(documents, first)), disk)

\* VectorStore.add_documents
AddDocuments(index, disk, documents, first, fails) ==
    IF ~index.held
    THEN [CreateFromDocuments(index, disk, documents, first, fails)
            EXCEPT !.op = "add_create"]
    ELSE IF documents = <<>> THEN Done("add", FALSE, "empty", index, disk)
    ELSE IF fails THEN Done("add", FALSE, "error", index, disk)
    ELSE Done("add", TRUE, "none",
              Faiss(index.entries \o NewEntries(documents, first)), disk)

\* a save that writes index.faiss and an empty index.pkl
SaveWithoutDocstore(index, disk, fails) ==
    IF ~index.held THEN Done("save", FALSE, "no_index", index, disk)
    ELSE IF fails THEN Done("save", FALSE, "error", index,
                            IF disk.exists THEN disk ELSE EmptyDir)
    ELSE Done("save", TRUE, "none", index,
              [SaveLocal(index.entries) EXCEPT !.pkl = <<>>])

\* VectorStore.save: the directory is created first, then save_local
Save(index, disk, fails) ==
    IF ~index.held THEN Done("save", FALSE, "no_index", index, disk)
    ELSE IF fails THEN Done("save", FALSE, "error", index,
                            IF disk.exists THEN disk ELSE EmptyDir)
    ELSE Done("save", TRUE, "none", index, SaveLocal(index.entries))

\* a load that drops the held index before reading the path
LoadClearingFirst(index, disk, fails) ==
    IF ~disk.exists THEN Done("load", FALSE, "missing", NoFaiss, disk)
    ELSE IF ~disk.has_index THEN Done("load", FALSE, "no_index", NoFaiss, disk)
    ELSE IF fails THEN Done("load", FALSE, "error", NoFaiss, disk)
    ELSE Done("load", TRUE, "none", LoadLocal(disk), disk)

\* VectorStore.load: self.vector_store is assigned only when load_local returned
Load(index, disk, fails) ==
    IF ~disk.exists THEN Done("load", FALSE, "missing", index, disk)
    ELSE IF ~disk.has_index THEN Done("load", FALSE, "no_index", index, disk)
    ELSE IF fails THEN Done("load", FALSE, "error", index, disk)
    ELSE Done("load", TRUE, "none", LoadLocal(disk), disk)

\* VectorStore.delete_by_ids: FAISS.delete raises when an id is not held
DeleteByIds(index, disk, ids) ==
    IF ~index.held THEN Done("delete", FALSE, "no_index", index, disk)
    ELSE IF ~(ids \subseteq Ids(index.entries))
    THEN Done("delete", FALSE, "error", index, disk)
    ELSE Done("delete", TRUE, "none",
              Faiss(SelectSeq(index.entries, LAMBDA e : e.id \notin ids)), disk)

\* VectorStore.create_from_texts
CreateFromTexts(index, disk, texts, first, fails) ==
    CreateFromDocuments(index, disk,
        [i \in DOMAIN texts |-> TextDocument(texts[i])], first, fails)

\* VectorStore.add_texts
AddTexts(index, disk, texts, first, fails) ==
    AddDocuments(index, disk,
        [i \in DOMAIN texts |-> TextDocument(texts[i])], first, fails)

\* no successful save yet
NotSaved == [ok |-> FALSE, entries |-> <<>>, count |-> 0]

\* the record of the last method call, and the index of the instance it was
\* called on when it returned
Called(r) ==
    [op |-> r.op, ok |-> r.ok, raised |-> r.raised, cause |-> r.cause,
     after |-> r.index]

\* the ids a successful create/add gave to its documents
NewIds(first, n) == first..(first + n - 1)

\* VectorStore(): no index held; the save path is absent or an empty directory
InitVectorStore ==
    /\ settings = [MODEL_PROVIDER |-> "ollama",
                   USE_CONVERSATION_HISTORY |-> TRUE, MAX_HISTORY_TURNS |-> 0,
                   TEMPERATURE |-> DefaultTemperature,
                   MAX_NEW_TOKENS |-> DefaultMaxNewTokens]
    /\ index_faiss = NoIndexFile
    /\ documents_dir = [exists |-> FALSE, files |-> {}]
    /\ embeddings = FALSE
    /\ vectorstore = NoVectorstore
    /\ llm = NoLlm
    /\ qa_chain = FALSE
    /\ pc = "vector_store"
    /\ init_error = NoError
    /\ index_origin = [how |-> "none", failed |-> {}, disk_before |-> NoIndexFile]
    /\ rag_pipeline = FALSE
    /\ last = Call("none", <<>>, NoHistory, NoParams, Outcome("none", FALSE, NoError, <<>>))
    /\ ollama = Unused
    /\ loader = Unused
    /\ factory = Unused
    /\ qwen = Unused
    /\ threads = Unused
    /\ \E disk \in {NoPath, EmptyDir} :
         store = [pc |-> "store", index |-> NoFaiss, disk |-> disk, next_id |-> 1,
                  deleted |-> {}, live |-> {}, saved |-> NotSaved,
                  last |-> Called(Done("init", TRUE, "none", NoFaiss, disk))]

\* the store after a create or an add of n documents returned r
AfterInsert(r, n, replaces) ==
    [store EXCEPT !.index = r.index,
                  !.next_id = IF r.ok THEN @ + n ELSE @,
                  !.live = IF ~r.ok THEN @
                           ELSE IF replaces THEN NewIds(store.next_id, n)
                           ELSE @ \cup NewIds(store.next_id, n),
                  !.last = Called(r)]

VsCreateFromDocuments ==
    /\ store.pc = "store"
    /\ \E documents \in SeqsUpTo(DocPool, MaxBatch), fails \in BOOLEAN :
         /\ store.next_id + Len(documents) - 1 <= MaxChunks
         /\ store' = AfterInsert(
                CreateFromDocuments(store.index, store.disk, documents,
                                    store.next_id, fails),
                Len(documents), TRUE)
    /\ UNCHANGED <<pipelineVars, ollama, loader, factory, qwen, threads>>

VsCreateFromTexts ==
    /\ store.pc = "store"
    /\ \E texts \in SeqsUpTo(TextPool, MaxBatch), fails \in BOOLEAN :
         /\ store.next_id + Len(texts) - 1 <= MaxChunks
         /\ store' = AfterInsert(
                CreateFromTexts(store.index, store.disk, texts, store.next_id, fails),
                Len(texts), TRUE)
    /\ UNCHANGED <<pipelineVars, ollama, loader, factory, qwen, threads>>

VsAddDocuments ==
    /\ store.pc = "store"
    /\ \E documents \in SeqsUpTo(DocPool, MaxBatch), fails \in BOOLEAN :
         /\ store.next_id + Len(documents) - 1 <= MaxChunks
         /\ store' = AfterInsert(
                AddDocuments(store.index, store.disk, documents, store.next_id, fails),
                Len(documents), FALSE)
    /\ UNCHANGED <<pipelineVars, ollama, loader, factory, qwen, threads>>

VsAddTexts ==
    /\ store.pc = "store"
    /\ \E texts \in SeqsUpTo(TextPool, MaxBatch), fails \in BOOLEAN :
         /\ store.next_id + Len(texts) - 1 <= MaxChunks
         /\ store' = AfterInsert(
                AddTexts(store.index, store.disk, texts, store.next_id, fails),
                Len(texts), FALSE)
    /\ UNCHANGED <<pipelineVars, ollama, loader, factory, qwen, threads>>

VsSave ==
    /\ store.pc = "store"
    /\ \E fails \in BOOLEAN :
         LET r == Save(store.index, store.disk, fails)
         IN  store' = [store EXCEPT
                 !.disk = r.disk,
                 !.saved = IF r.ok
                           THEN [ok |-> TRUE, entries |-> store.index.entries,
                                 count |-> GetVectorCount(store.index)]
                           ELSE @,
                 !.last = Called(r)]
    /\ UNCHANGED <<pipelineVars, ollama, loader, factory, qwen, threads>>

VsLoad ==
    /\ store.pc = "store"
    /\ \E fails \in BOOLEAN :
         LET r == Load(store.index, store.disk, fails)
         IN  store' = [store EXCEPT
                 !.index = r.index,
                 !.live = IF r.ok THEN Ids(store.saved.entries) ELSE @,
                 !.last = Called(r)]
    /\ UNCHANGED <<pipelineVars, ollama, loader, factory, qwen, threads>>

VsDeleteByIds ==
    /\ store.pc = "store"
    /\ \E ids \in SUBSET (1..MaxChunks) :
         LET r == DeleteByIds(store.index, store.disk, ids)
         IN  store' = [store EXCEPT
                 !.index = r.index,
                 !.deleted = IF r.ok THEN @ \cup ids ELSE @,
                 !.live = IF r.ok THEN @ \ ids ELSE @,
                 !.last = Called(r)]
    /\ UNCHANGED <<pipelineVars, ollama, loader, factory, qwen, threads>>

\* another VectorStore() is created and load(path) is called on it
VsFreshLoad ==
    /\ store.pc = "store"
    /\ \E fails \in BOOLEAN :
         LET r == Load(NoFaiss, store.disk, fails)
         IN  store' = [store EXCEPT
                 !.last = Called([r EXCEPT !.op = "fresh_load"])]
    /\ UNCHANGED <<pipelineVars, ollama, loader, factory, qwen, threads>>

NextVectorStore ==
    \/ VsCreateFromDocuments
    \/ VsCreateFromTexts
    \/ VsAddDocuments
    \/ VsAddTexts
    \/ VsSave
    \/ VsLoad
    \/ VsDeleteByIds
    \/ VsFreshLoad

SpecVectorStore == InitVectorStore /\ [][NextVectorStore]_vars

----------------------------------------------------------------------------
(* utils.document_loader.DocumentLoader.split_documents                    *)
(* A text is the sequence of its characters.                                *)

Characters == {"a", " ", "\n"}

\* separators=["\n\n", "\n", " ", ""] of the text splitter
Separators == << <<"\n", "\n">>, <<"\n">>, <<" ">>, <<>> >>

\* the chunk_size / chunk_overlap a DocumentLoader is built with
ChunkSizes == {2, 3}
ChunkOverlaps == {0, 1}

Contains(text, sep) ==
    \E i \in 1..(Len(text) - Len(sep) + 1) : SubSeq(text, i, i + Len(sep) - 1) = sep

\* re.split on the separator, each separator kept at the start of the piece
\* that follows it; cur is the piece being read
RECURSIVE SplitKeep(_, _, _)
SplitKeep(text, sep, cur) ==
    IF text = <<>> THEN <<cur>>
    ELSE IF Len(text) >= Len(sep) /\ SubSeq(text, 1, Len(sep)) = sep
    THEN <<cur>> \o SplitKeep(SubSeq(text, Len(sep) + 1, Len(text)), sep, sep)
    ELSE SplitKeep(Tail(text), sep, Append(cur, Head(text)))

\* _split_text_with_regex: list(text) for the empty separator; empty pieces
\* are dropped
SplitWithSeparator(text, sep) ==
    IF sep = <<>> THEN [i \in 1..Len(text) |-> <<text[i]>>]
    ELSE SelectSeq(SplitKeep(text, sep, <<>>), LAMBDA piece : piece # <<>>)

RECURSIVE Flatten(_)
Flatten(pieces) ==
    IF pieces = <<>> THEN <<>> ELSE Head(pieces) \o Flatten(Tail(pieces))

\* _join_docs: the pieces joined and stripped; nothing when that is empty
JoinDocs(current_doc) ==
    LET text == Strip(Flatten(current_doc))
    IN  IF text = <<>> THEN <<>> ELSE <<text>>

\* the while loop of _merge_splits: pieces leave the front of current_doc
\* until the overlap and the next piece fit
RECURSIVE PopFront(_, _, _, _)
PopFront(current_doc, len, chunk_size, chunk_overlap) ==
    LET total == Len(Flatten(current_doc))
    IN  IF total > chunk_overlap \/ (total + len > chunk_size /\ total > 0)
        THEN PopFront(Tail(current_doc), len, chunk_size, chunk_overlap)
        ELSE current_doc

\* _merge_splits with the empty join separator (keep_separator is set)
RECURSIVE MergeSplits(_, _, _, _, _)
MergeSplits(splits, current_doc, docs, chunk_size, chunk_overlap) ==
    IF splits = <<>> THEN docs \o JoinDocs(current_doc)
    ELSE LET d == Head(splits)
             total == Len(Flatten(current_doc))
             over == total + Len(d) > chunk_size /\ current_doc # <<>>
         IN  MergeSplits(Tail(splits),
                 Append(IF over
                        THEN PopFront(current_doc, Len(d), chunk_size, chunk_overlap)
                        ELSE current_doc, d),
                 IF over THEN docs \o JoinDocs(current_doc) ELSE docs,
                 chunk_size, chunk_overlap)

\* the first separator that is empty or occurs in the text (the last one
\* when none does)
SeparatorIndex(text, separators) ==
    IF \E i \in 1..Len(separators) :
          separators[i] = <<>> \/ Contains(text, separators[i])
    THEN CHOOSE i \in 1..Len(separators) :
           /\ separators[i] = <<>> \/ Contains(text, separators[i])
           /\ \A j \in 1..(i - 1) :
                separators[j] # <<>> /\ ~Contains(text, separators[j])
    ELSE Len(separators)

\* RecursiveCharacterTextSplitter._split_text and its loop over the splits
RECURSIVE SplitText(_, _, _, _)
RECURSIVE SplitLoop(_, _, _, _, _, _)
SplitLoop(splits, good_splits, final_chunks, new_separators, chunk_size, chunk_overlap) ==
    LET merged == IF good_splits = <<>> THEN <<>>
                  ELSE MergeSplits(good_splits, <<>>, <<>>, chunk_size, chunk_overlap)
    IN  IF splits = <<>> THEN final_chunks \o merged
        ELSE LET s == Head(splits)
             IN  IF Len(s) < chunk_size
                 THEN SplitLoop(Tail(splits), Append(good_splits, s), final_chunks,
                                new_separators, chunk_size, chunk_overlap)
                 ELSE SplitLoop(Tail(splits), <<>>,
                                final_chunks \o merged \o
                                  (IF new_separators = <<>> THEN <<s>>
                                   ELSE SplitText(s, new_separators, chunk_size,
                                                  chunk_overlap)),
                                new_separators, chunk_size, chunk_overlap)

SplitText(text, separators, chunk_size, chunk_overlap) ==
    LET i == SeparatorIndex(text, separators)
        separator == separators[i]
        new_separators ==
            IF separator # <<>> /\ Contains(text, separator)
            THEN SubSeq(separators, i + 1, Len(separators)) ELSE <<>>
    IN  SplitLoop(SplitWithSeparator(text, separator), <<>>, <<>>,
                  new_separators, chunk_size, chunk_overlap)

\* a Document; `of` is the position, in the list given to split_documents, of
\* the document it is or was cut from
Doc(page_content, metadata, of) ==
    [page_content |-> page_content, metadata |-> metadata, of |-> of]

\* a chunk that does not get the metadata of its document
ChunkWithoutMetadata(document, page_content) ==
    Doc(page_content, "none", document.of)

\* Document(page_content=chunk, metadata=copy.deepcopy(metadata))
ChunkOfDocument(document, page_content) ==
    Doc(page_content, document.metadata, document.of)

\* TextSplitter.split_documents: the chunks of each document, in order
RECURSIVE SplitterSplitDocuments(_, _, _)
SplitterSplitDocuments(documents, chunk_size, chunk_overlap) ==
    IF documents = <<>> THEN <<>>
    ELSE LET document == Head(documents)
             texts == SplitText(document.page_content, Separators, chunk_size,
                                chunk_overlap)
         IN  [k \in DOMAIN texts |-> ChunkOfDocument(document, texts[k])]
               \o SplitterSplitDocuments(Tail(documents), chunk_size, chunk_overlap)

\* DocumentLoader.split_documents; fails is whether the splitter raises
LoaderSplitDocuments(documents, chunk_size, chunk_overlap, fails) ==
    IF documents = <<>> THEN [path |-> "empty", chunks |-> <<>>]
    ELSE IF fails THEN [path |-> "except", chunks |-> documents]
    ELSE [path |-> "split",
          chunks |-> SplitterSplitDocuments(documents, chunk_size, chunk_overlap)]

\* the lists of documents given to split_documents: none, one document with
\* any text of up to MaxTextLen characters, or that document and a second one
SecondTexts == { <<"a", " ", "a", "a">>, <<"a">> }

DocumentLists ==
    { <<>> } \cup
    { <<Doc(t, "a.txt", 1)>> : t \in SeqsUpTo(Characters, MaxTextLen) } \cup
    { <<Doc(t, "a.txt", 1), Doc(u, "b.md", 2)>> :
        t \in SeqsUpTo(Characters, MaxTextLen), u \in SecondTexts }

\* DocumentLoader(chunk_size, chunk_overlap), and the documents of the call
InitLoader ==
    /\ settings = [MODEL_PROVIDER |-> "ollama",
                   USE_CONVERSATION_HISTORY |-> TRUE, MAX_HISTORY_TURNS |-> 0,
                   TEMPERATURE |-> DefaultTemperature,
                   MAX_NEW_TOKENS |-> DefaultMaxNewTokens]
    /\ index_faiss = NoIndexFile
    /\ documents_dir = [exists |-> FALSE, files |-> {}]
    /\ embeddings = FALSE
    /\ vectorstore = NoVectorstore
    /\ llm = NoLlm
    /\ qa_chain = FALSE
    /\ pc = "document_loader"
    /\ init_error = NoError
    /\ index_origin = [how |-> "none", failed |-> {}, disk_before |-> NoIndexFile]
    /\ rag_pipeline = FALSE
    /\ last = Call("none", <<>>, NoHistory, NoParams, Outcome("none", FALSE, NoError, <<>>))
    /\ ollama = Unused
    /\ store = Unused
    /\ factory = Unused
    /\ qwen = Unused
    /\ threads = Unused
    /\ \E chunk_size \in ChunkSizes, chunk_overlap \in ChunkOverlaps,
          documents \in DocumentLists :
         loader = [pc |-> "called", chunk_size |-> chunk_size,
                   chunk_overlap |-> chunk_overlap, documents |-> documents,
                   path |-> "none", chunks |-> <<>>]

LoaderSplit ==
    /\ loader.pc = "called"
    /\ \E fails \in BOOLEAN :
         LET r == LoaderSplitDocuments(loader.documents, loader.chunk_size,
                                       loader.chunk_overlap, fails)
         IN  loader' = [loader EXCEPT !.pc = "returned", !.path = r.path,
                                      !.chunks = r.chunks]
    /\ UNCHANGED <<pipelineVars, ollama, store, factory, qwen, threads>>

NextLoader == LoaderSplit

SpecLoader == InitLoader /\ [][NextLoader]_vars

----------------------------------------------------------------------------
(* from_settings of OllamaLLM and QwenLLM                                   *)

GeneratorVariants == {"OllamaLLM", "QwenLLM"}

\* the keyword arguments a caller may give to from_settings
Keywords ==
    {"model", "base_url", "temperature", "top_p", "max_tokens", "timeout",
     "keep_alive", "system_prompt"}

\* the attribute of the settings object a parameter is read from
SettingFor(keyword) ==
    CASE keyword = "model" -> "MODEL_NAME"
      [] keyword = "base_url" -> "OLLAMA_BASE_URL"
      [] keyword = "temperature" -> "TEMPERATURE"
      [] keyword = "top_p" -> "TOP_P"
      [] keyword = "max_tokens" -> "MAX_NEW_TOKENS"
      [] keyword = "timeout" -> "OLLAMA_TIMEOUT"
      [] keyword = "keep_alive" -> "OLLAMA_KEEP_ALIVE"
      [] keyword = "device" -> "DEVICE"
      [] OTHER -> "none"

\* the value of an attribute of the settings object, and the value a caller
\* gives for a keyword (never the one of the settings)
SettingValue(attribute) == <<"settings", attribute>>
OverrideValue(keyword) == <<"override", keyword>>

\* the keywords from_settings writes out in its call of cls(...)
ExplicitKeywords(variant) ==
    IF variant = "OllamaLLM"
    THEN {"model", "base_url", "temperature", "top_p", "max_tokens", "timeout",
          "keep_alive"}
    ELSE {"model", "temperature", "max_tokens", "system_prompt", "device"}

\* the keywords from_settings pops from kwargs before the call
PoppedKeywords(variant) ==
    IF variant = "OllamaLLM" THEN {} ELSE {"system_prompt", "device"}

\* kwargs.get(keyword, default) / kwargs.pop(keyword, default)
KwargsGet(kwargs, keyword, default) ==
    IF keyword \in DOMAIN kwargs THEN kwargs[keyword] ELSE default

\* the default of the explicit keyword: system_prompt falls back to None,
\* every other one to its setting
KeywordDefault(keyword) ==
    IF keyword = "system_prompt" THEN <<"None">>
    ELSE SettingValue(SettingFor(keyword))

FactoryResult(outcome, params) == [outcome |-> outcome, params |-> params]

NoParameters == [keyword \in {} |-> <<>>]

\* cls.from_settings(settings, **kwargs): Python raises TypeError when the
\* call cls(keyword=..., **kwargs) gets a keyword twice; otherwise __init__
\* runs, which sets the fields and then reaches the daemon or loads the model
FromSettings(variant, kwargs, init_fails) ==
    LET explicit == ExplicitKeywords(variant)
        remaining == DOMAIN kwargs \ PoppedKeywords(variant)
        passed == [keyword \in explicit \cup remaining |->
                     IF keyword \in explicit
                     THEN KwargsGet(kwargs, keyword, KeywordDefault(keyword))
                     ELSE kwargs[keyword]]
    IN  IF explicit \cap remaining # {}
        THEN FactoryResult("TypeError", NoParameters)
        ELSE IF init_fails
        THEN FactoryResult("init_raised", NoParameters)
        ELSE FactoryResult("instance", passed)

\* a script about to call from_settings of one of the classes
InitFactory ==
    /\ settings = [MODEL_PROVIDER |-> "ollama",
                   USE_CONVERSATION_HISTORY |-> TRUE, MAX_HISTORY_TURNS |-> 0,
                   TEMPERATURE |-> DefaultTemperature,
                   MAX_NEW_TOKENS |-> DefaultMaxNewTokens]
    /\ index_faiss = NoIndexFile
    /\ documents_dir = [exists |-> FALSE, files |-> {}]
    /\ embeddings = FALSE
    /\ vectorstore = NoVectorstore
    /\ llm = NoLlm
    /\ qa_chain = FALSE
    /\ pc = "from_settings"
    /\ init_error = NoError
    /\ index_origin = [how |-> "none", failed |-> {}, disk_before |-> NoIndexFile]
    /\ rag_pipeline = FALSE
    /\ last = Call("none", <<>>, NoHistory, NoParams, Outcome("none", FALSE, NoError, <<>>))
    /\ ollama = Unused
    /\ store = Unused
    /\ loader = Unused
    /\ qwen = Unused
    /\ threads = Unused
    /\ \E variant \in GeneratorVariants, overridden \in SUBSET Keywords :
         factory = [pc |-> "called", variant |-> variant,
                    kwargs |-> [keyword \in overridden |-> OverrideValue(keyword)],
                    result |-> FactoryResult("none", NoParameters)]

FromSettingsCall ==
    /\ factory.pc = "called"
    /\ \E init_fails \in BOOLEAN :
         factory' = [factory EXCEPT !.pc = "returned",
                        !.result = FromSettings(factory.variant, factory.kwargs,
                                                init_fails)]
    /\ UNCHANGED <<pipelineVars, ollama, store, loader, qwen, threads>>

NextFactory == FromSettingsCall

SpecFactory == InitFactory /\ [][NextFactory]_vars

----------------------------------------------------------------------------
(* advanced_chat calls that overlap: the web server runs each call on a     *)
(* worker thread, and a thread may be preempted between any two statements  *)

Workers == {1, 2}

\* what the two overlapping calls were submitted with
WorkerParams(t) ==
    IF t = 1 THEN [temperature |-> 7, max_tokens |-> 128, use_history |-> TRUE]
    ELSE [temperature |-> 9, max_tokens |-> 256, use_history |-> FALSE]

\* the statements of advanced_chat from line 203 to its return, in order
AdvancedChatStatements ==
    << "original_temp", "original_tokens", "original_history",
       "set_temperature", "set_max_new_tokens", "set_use_history",
       "generate_response",
       "restore_temperature", "restore_max_new_tokens", "restore_use_history",
       "returned" >>

StatementAfter(statement) ==
    LET i == CHOOSE k \in DOMAIN AdvancedChatStatements :
                 AdvancedChatStatements[k] = statement
    IN  AdvancedChatStatements[i + 1]

\* a pipeline that was constructed and is being served
InitThreads ==
    /\ settings \in { st \in SettingsValues :
                        st.MODEL_PROVIDER = "ollama" /\ st.MAX_HISTORY_TURNS = 1 }
    /\ index_faiss = NoIndexFile
    /\ documents_dir = [exists |-> FALSE, files |-> {}]
    /\ embeddings = TRUE
    /\ vectorstore = Vectorstore(<<PlaceholderChunk>>)
    /\ llm = QwenFromSettings(settings)
    /\ qa_chain = TRUE
    /\ pc = "serving"
    /\ init_error = NoError
    /\ index_origin = [how |-> "placeholder", failed |-> {}, disk_before |-> NoIndexFile]
    /\ rag_pipeline = TRUE
    /\ last = Call("threads", <<>>, NoHistory, NoParams, Outcome("none", FALSE, NoError, <<>>))
    /\ ollama = Unused
    /\ store = Unused
    /\ loader = Unused
    /\ factory = Unused
    /\ qwen = Unused
    /\ \E message \in Messages, hist \in Histories :
         threads = [before |-> settings,
                    calls |-> [t \in Workers |->
                       [pc |-> "original_temp", params |-> WorkerParams(t),
                        message |-> message, history |-> hist,
                        original_temp |-> 0, original_tokens |-> 0,
                        original_history |-> FALSE,
                        seen_use_history |-> FALSE, formatted_query |-> <<>>]]]

\* worker t runs the statement it is at; st is what the statement makes of
\* the settings and c what it makes of the call's locals
Statement(t, statement, st, c) ==
    /\ threads.calls[t].pc = statement
    /\ settings' = st
    /\ threads' = [threads EXCEPT !.calls[t] =
                      [c EXCEPT !.pc = StatementAfter(statement)]]
    /\ UNCHANGED <<index_faiss, documents_dir, embeddings, vectorstore, llm,
                   qa_chain, pc, init_error, index_origin, rag_pipeline, last>>
    /\ UNCHANGED <<ollama, store, loader, factory, qwen>>

\* original_temp = settings.TEMPERATURE (line 203)
SaveTemperature(t) ==
    Statement(t, "original_temp", settings,
        [threads.calls[t] EXCEPT !.original_temp = settings.TEMPERATURE])

\* original_tokens = settings.MAX_NEW_TOKENS (line 204)
SaveMaxNewTokens(t) ==
    Statement(t, "original_tokens", settings,
        [threads.calls[t] EXCEPT !.original_tokens = settings.MAX_NEW_TOKENS])

\* original_history = settings.USE_CONVERSATION_HISTORY (line 205)
SaveUseHistory(t) ==
    Statement(t, "original_history", settings,
        [threads.calls[t] EXCEPT
            !.original_history = settings.USE_CONVERSATION_HISTORY])

\* settings.TEMPERATURE = temperature (line 207)
SetTemperature(t) ==
    Statement(t, "set_temperature",
        [settings EXCEPT !.TEMPERATURE = threads.calls[t].params.temperature],
        threads.calls[t])

\* settings.MAX_NEW_TOKENS = max_tokens (line 208)
SetMaxNewTokens(t) ==
    Statement(t, "set_max_new_tokens",
        [settings EXCEPT !.MAX_NEW_TOKENS = threads.calls[t].params.max_tokens],
        threads.calls[t])

\* settings.USE_CONVERSATION_HISTORY = use_history (line 209)
SetUseHistory(t) ==
    Statement(t, "set_use_history",
        [settings EXCEPT
            !.USE_CONVERSATION_HISTORY = threads.calls[t].params.use_history],
        threads.calls[t])

\* lines 212-213: generate_response reads settings.USE_CONVERSATION_HISTORY
\* when it formats the query (rag_pipeline.py lines 378-390)
WorkerGenerate(t) ==
    LET c == threads.calls[t]
        conversation_history ==
            IF c.params.use_history THEN c.history ELSE NoHistory
    IN  Statement(t, "generate_response", settings,
            [c EXCEPT !.seen_use_history = settings.USE_CONVERSATION_HISTORY,
                      !.formatted_query =
                          FormatQuery(settings, c.message, conversation_history)])

\* settings.TEMPERATURE = original_temp (line 216)
RestoreTemperature(t) ==
    Statement(t, "restore_temperature",
        [settings EXCEPT !.TEMPERATURE = threads.calls[t].original_temp],
        threads.calls[t])

\* settings.MAX_NEW_TOKENS = original_tokens (line 217)
RestoreMaxNewTokens(t) ==
    Statement(t, "restore_max_new_tokens",
        [settings EXCEPT !.MAX_NEW_TOKENS = threads.calls[t].original_tokens],
        threads.calls[t])

\* settings.USE_CONVERSATION_HISTORY = original_history (line 218), then the
\* call appends to the history and returns
RestoreUseHistory(t) ==
    Statement(t, "restore_use_history",
        [settings EXCEPT
            !.USE_CONVERSATION_HISTORY = threads.calls[t].original_history],
        threads.calls[t])

NextThreads ==
    \E t \in Workers :
        \/ SaveTemperature(t)
        \/ SaveMaxNewTokens(t)
        \/ SaveUseHistory(t)
        \/ SetTemperature(t)
        \/ SetMaxNewTokens(t)
        \/ SetUseHistory(t)
        \/ WorkerGenerate(t)
        \/ RestoreTemperature(t)
        \/ RestoreMaxNewTokens(t)
        \/ RestoreUseHistory(t)

SpecThreads == InitThreads /\ [][NextThreads]_vars

----------------------------------------------------------------------------
(* QwenLLM._stream: a generator, advanced by its consumer one fragment at a *)
(* time                                                                     *)

\* a text of n characters; a character is named by its position
ResponseText(n) == [k \in 1..n |-> k]

\* response[i:i + chunk_size]
StreamChunk(response, i) ==
    SubSeq(response, i + 1, Min(i + StreamChunkSize, Len(response)))

\* a range that leaves one character out after every chunk
NextOffsetSkipping(i) == i + StreamChunkSize + 1

\* the step of range(0, len(response), chunk_size)
NextOffset(i) == i + StreamChunkSize

\* the fragment of the except clause (line 218)
QwenErrorFragment(e) == <<"Error: Failed to stream response. ", e>>

\* llm._stream(prompt, run_manager=...): nothing runs until the first next()
InitQwen ==
    /\ settings = [MODEL_PROVIDER |-> "ollama",
                   USE_CONVERSATION_HISTORY |-> TRUE, MAX_HISTORY_TURNS |-> 0,
                   TEMPERATURE |-> DefaultTemperature,
                   MAX_NEW_TOKENS |-> DefaultMaxNewTokens]
    /\ index_faiss = NoIndexFile
    /\ documents_dir = [exists |-> FALSE, files |-> {}]
    /\ embeddings = FALSE
    /\ vectorstore = NoVectorstore
    /\ llm = NoLlm
    /\ qa_chain = FALSE
    /\ pc = "qwen_stream"
    /\ init_error = NoError
    /\ index_origin = [how |-> "none", failed |-> {}, disk_before |-> NoIndexFile]
    /\ rag_pipeline = FALSE
    /\ last = Call("none", <<>>, NoHistory, NoParams, Outcome("none", FALSE, NoError, <<>>))
    /\ ollama = Unused
    /\ store = Unused
    /\ loader = Unused
    /\ factory = Unused
    /\ threads = Unused
    /\ \E run_manager \in BOOLEAN :
         qwen = [pc |-> "created", run_manager |-> run_manager,
                 response |-> <<>>, i |-> 0, fragments |-> <<>>, decodes |-> 0,
                 failed |-> FALSE]

\* line 206: response = self._call(...), one run of the text-generation
\* pipeline; _call returns a text whatever happens (its own except clause
\* returns the error text)
QwenStreamCall ==
    /\ qwen.pc = "created"
    /\ \E n \in 0..MaxResponseLen :
         qwen' = [qwen EXCEPT !.pc = "streaming", !.response = ResponseText(n),
                              !.decodes = @ + 1, !.i = 0]
    /\ UNCHANGED <<pipelineVars, ollama, store, loader, factory, threads>>

\* one turn of the loop (lines 210-214): the callback is told, the chunk is
\* yielded; a callback that raises takes the generator to its except clause
\* (lines 216-218), which yields one fragment and ends the generator
QwenStreamYield ==
    /\ qwen.pc = "streaming"
    /\ qwen.i < Len(qwen.response)
    /\ \/ qwen' = [qwen EXCEPT
                      !.fragments = Append(@, StreamChunk(qwen.response, qwen.i)),
                      !.i = NextOffset(@)]
       \/ /\ qwen.run_manager
          /\ \E e \in Errors :
               qwen' = [qwen EXCEPT !.fragments = Append(@, QwenErrorFragment(e)),
                                    !.pc = "done", !.failed = TRUE]
    /\ UNCHANGED <<pipelineVars, ollama, store, loader, factory, threads>>

\* the range is exhausted: the generator returns
QwenStreamReturn ==
    /\ qwen.pc = "streaming"
    /\ qwen.i >= Len(qwen.response)
    /\ qwen' = [qwen EXCEPT !.pc = "done"]
    /\ UNCHANGED <<pipelineVars, ollama, store, loader, factory, threads>>

NextQwen ==
    \/ QwenStreamCall
    \/ QwenStreamYield
    \/ QwenStreamReturn

SpecQwen == InitQwen /\ [][NextQwen]_vars

----------------------------------------------------------------------------
(* RAGPipeline.add_documents on a constructed pipeline                      *)

\* files the directory given to add_documents may hold; the last one has the
\* literal extension ".{txt,md}"
AddableFiles ==
    { File(<<"new", "b.txt">>, "txt", 1),
      File(<<"new", "c.md">>, "md", 1),
      File(<<"new", "d.{txt,md}">>, "{txt,md}", 2) }

AddablePaths ==
    { [exists |-> FALSE, files |-> {}] } \cup
    { [exists |-> TRUE, files |-> fs] : fs \in SUBSET AddableFiles }

\* DirectoryLoader(documents_path, glob="**/*.{txt,md}").load(): pathlib's
\* glob has no brace expansion, so the pattern names the files whose name
\* ends in the literal ".{txt,md}"
AddedDocuments(dir) == Listing({f \in dir.files : f.ext = "{txt,md}"})

AddSteps == {"load", "split", "add", "save"}

AddResult(returned, vs, disk, added, failed) ==
    [returned |-> returned, vectorstore |-> vs, index_faiss |-> disk,
     added |-> added, failed |-> failed]

\* RAGPipeline.add_documents; F holds the steps that raise when reached.
\* The function has a return statement in the `if new_docs` branch and in the
\* except clause only, so it returns None when no document was loaded
PipelineAddDocuments(vs, disk, dir, F) ==
    LET new_docs == AddedDocuments(dir)
        splits == SplitDocuments(new_docs)
        grown == Vectorstore(vs.chunks \o splits)
    IN  IF ~dir.exists \/ "load" \in F
        THEN AddResult("False", vs, disk, <<>>, "load")
        ELSE IF new_docs = <<>>
        THEN AddResult("None", vs, disk, <<>>, "none")
        ELSE IF "split" \in F
        THEN AddResult("False", vs, disk, <<>>, "split")
        ELSE IF "add" \in F
        THEN AddResult("False", vs, disk, <<>>, "add")
        ELSE IF "save" \in F
        THEN AddResult("False", grown, disk, splits, "save")
        ELSE AddResult("True", grown, IndexFile(grown.chunks), splits, "none")

\* the index a constructed pipeline holds and the file it left or found on
\* disk: the placeholder (never saved), or an index equal to the saved one
ConstructedIndexes ==
    { [vectorstore |-> Vectorstore(<<PlaceholderChunk>>), index_faiss |-> NoIndexFile] }
    \cup
    { [vectorstore |-> Vectorstore(cs), index_faiss |-> IndexFile(cs)] :
        cs \in PersistedIndexes \cup { SplitDocuments(<<File(<<"docs", "a.txt">>, "txt", 2)>>) } }

\* a constructed pipeline and the directory its add_documents is called with
InitAddDocuments ==
    /\ settings = [MODEL_PROVIDER |-> "ollama",
                   USE_CONVERSATION_HISTORY |-> TRUE, MAX_HISTORY_TURNS |-> 0,
                   TEMPERATURE |-> DefaultTemperature,
                   MAX_NEW_TOKENS |-> DefaultMaxNewTokens]
    /\ \E held \in ConstructedIndexes :
         /\ vectorstore = held.vectorstore
         /\ index_faiss = held.index_faiss
         /\ index_origin = [how |-> "constructed", failed |-> {},
                            disk_before |-> held.index_faiss]
    /\ documents_dir \in AddablePaths
    /\ embeddings = TRUE
    /\ llm = QwenFromSettings(settings)
    /\ qa_chain = TRUE
    /\ pc = "add_documents"
    /\ init_error = NoError
    /\ rag_pipeline = TRUE
    /\ last = [entry |-> "add_documents", returned |-> "pending",
               before |-> vectorstore, added |-> <<>>, failed |-> "none"]
    /\ ollama = Unused
    /\ store = Unused
    /\ loader = Unused
    /\ factory = Unused
    /\ qwen = Unused
    /\ threads = Unused

AddDocumentsCall ==
    /\ last.returned = "pending"
    /\ \E F \in SUBSET AddSteps :
         LET r == PipelineAddDocuments(vectorstore, index_faiss, documents_dir, F)
         IN  /\ vectorstore' = r.vectorstore
             /\ index_faiss' = r.index_faiss
             /\ last' = [last EXCEPT !.returned = r.returned, !.added = r.added,
                                     !.failed = r.failed]
    /\ UNCHANGED <<settings, documents_dir, embeddings, llm, qa_chain, pc,
                   init_error, index_origin, rag_pipeline>>
    /\ UNCHANGED utilVars

NextAddDocuments == AddDocumentsCall

SpecAddDocuments == InitAddDocuments /\ [][NextAddDocuments]_vars

----------------------------------------------------------------------------
(* Reading a call's record *)

Range(s) == { s[i] : i \in DOMAIN s }

Returned == last.outcome.kind \notin {"none", "pending"}

\* the call went through RAGPipeline.generate_response
FromGenerate ==
    last.outcome.kind \in {"formatted", "apology", "not_ready", "raised", "ui_error"}

\* generate_response raised to its caller
GenerateRaised == last.outcome.raised \/ last.outcome.kind = "ui_error"

HasSourcesSection(result) == SourcesHeader \in Range(result)

\* the pieces after the Sources header
SourcesSection(result) ==
    IF HasSourcesSection(result)
    THEN LET h == CHOOSE i \in 1..Len(result) : result[i] = SourcesHeader
         IN  SubSeq(result, h + 1, Len(result))
    ELSE <<>>

\* the filenames of the lines "<number>. <filename>\n" of the section
ListedFilenames(result) ==
    LET sec == SourcesSection(result)
    IN  [k \in 1..(Len(sec) \div 4) |-> sec[4 * (k - 1) + 3]]

\* a sequence without its repetitions, in first-seen order
RECURSIVE FirstSeen(_)
FirstSeen(s) ==
    IF s = <<>> THEN <<>>
    ELSE LET r == FirstSeen(SubSeq(s, 1, Len(s) - 1))
         IN  IF s[Len(s)] \in Range(r) THEN r ELSE Append(r, s[Len(s)])

TopChunks(chunks) == SubSeq(chunks, 1, Min(SourcesCap, Len(chunks)))

\* the index the documents directory yields when chunked
BuiltFromDocuments == SplitDocuments(LoadedDocuments(documents_dir))

----------------------------------------------------------------------------
(* Claims *)

\* C1: whatever the history and USE_CONVERSATION_HISTORY, the text embedded
\* for the similarity retrieval is exactly the raw query (no history preamble).
C1_RawQueryEmbedded ==
    (FromGenerate /\ last.outcome.retrievals > 0)
        => /\ last.outcome.embedded = last.message
           /\ HistoryHeader \notin Range(last.outcome.embedded)

C3_FailureGivesApology ==
    (FromGenerate /\ last.outcome.failure # "none")
        => /\ last.outcome.result = <<ApologyPrefix, last.outcome.error>>
           /\ ~HasSourcesSection(last.outcome.result)

\* C3 amended: an exception raised inside qa_chain.invoke (embedding,
\* retrieval, prompt assembly) yields the apology string with the error's
\* description and no Sources section; a generator failure is absorbed by
\* the generator's _call, whose error text is then formatted like an answer,
\* with the Sources section when chunks were retrieved.
C3_ApologyOrGeneratorErrorText ==
    FromGenerate
        => /\ last.outcome.failure = "retrieval"
                => /\ last.outcome.kind = "apology"
                   /\ last.outcome.result = <<ApologyPrefix, last.outcome.error>>
           /\ last.outcome.failure = "generator"
                => /\ last.outcome.kind = "formatted"
                   /\ SubSeq(last.outcome.result, 1, 2)
                        = <<"Error: Failed to generate response. ", last.outcome.error>>
                   /\ HasSourcesSection(last.outcome.result)
                        <=> last.outcome.retrieved # <<>>

\* a generator failure came back as a formatted answer with its sources
C3_Witness ==
    /\ FromGenerate
    /\ last.outcome.failure = "generator"
    /\ last.outcome.error \in Errors
    /\ HasSourcesSection(last.outcome.result)

C5_LoadedOrBuiltAndPersisted ==
    (pc \in {"constructed", "serving"} /\ init_error = NoError)
        => IF index_origin.disk_before.exists
           THEN vectorstore = Vectorstore(index_origin.disk_before.chunks)
           ELSE (documents_dir.exists /\ documents_dir.files # {})
                  => /\ index_origin.how = "built"
                     /\ vectorstore.chunks # <<PlaceholderChunk>>
                     /\ index_faiss = IndexFile(vectorstore.chunks)

\* C6: with no persisted index and no loadable document, the index step ends
\* with exactly the placeholder chunk (source "system"), and an answer of
\* generate_response on that pipeline lists exactly one source, "system".
C6_PlaceholderIndexOneSystemSource ==
    (/\ ~index_origin.disk_before.exists
     /\ LoadedDocuments(documents_dir) = <<>>
     /\ index_origin.how # "none")
        => /\ vectorstore = Vectorstore(<<Chunk(<<"system">>)>>)
           /\ index_faiss = NoIndexFile
           /\ last.outcome.kind = "formatted"
                => /\ HasSourcesSection(last.outcome.result)
                   /\ ListedFilenames(last.outcome.result) = <<"system">>

\* an answer on the pipeline started with an empty documents directory
C6_Witness ==
    /\ ~index_origin.disk_before.exists
    /\ documents_dir.exists
    /\ documents_dir.files = {}
    /\ last.outcome.kind = "formatted"
    /\ last.outcome.failure = "none"
    /\ ListedFilenames(last.outcome.result) = <<"system">>

\* C7 as claimed: the listed filenames are those of the retrieved chunks,
\* without any filename twice, in first-seen order, at most 3.
C7_FilenamesDeduplicated ==
    (last.entry = "_format_response" /\ last.outcome.retrieved # <<>>)
        => LET chunks == TopChunks(last.outcome.retrieved)
               names == [i \in DOMAIN chunks |-> Filename(SourceOf(chunks[i]))]
           IN  /\ ListedFilenames(last.outcome.result) = FirstSeen(names)
               /\ Len(ListedFilenames(last.outcome.result)) <= SourcesCap

\* C7 amended: the section lists one filename per distinct source among the
\* first 3 retrieved chunks, in first-seen order of the sources, at most 3;
\* no source is listed twice, but two distinct sources with the same base
\* name give the same filename twice.
C7_SourcesDeduplicated ==
    (last.entry = "_format_response" /\ last.outcome.retrieved # <<>>)
        => LET chunks == TopChunks(last.outcome.retrieved)
               cited == FirstSeen([i \in DOMAIN chunks |-> SourceOf(chunks[i])])
           IN  /\ ListedFilenames(last.outcome.result)
                    = [k \in DOMAIN cited |-> Filename(cited[k])]
               /\ Len(ListedFilenames(last.outcome.result)) <= SourcesCap

\* more than 3 chunks, a repeated source among the first 3, and two sources
\* of the same base name both listed
C7_Witness ==
    /\ last.entry = "_format_response"
    /\ Len(last.outcome.retrieved) > SourcesCap
    /\ last.outcome.retrieved[1] = last.outcome.retrieved[3]
    /\ ListedFilenames(last.outcome.result) = <<"a.txt", "a.txt">>

\* C8: a generate_response call that reaches its normal return gives the
\* trimmed answer followed by the Sources section if and only if at least one
\* chunk was retrieved, and the trimmed answer alone otherwise.
C8_SourcesIffRetrieved ==
    last.outcome.kind = "formatted"
        => LET result == last.outcome.result
               trimmed == Strip(last.outcome.answer)
           IN  /\ HasSourcesSection(result) <=> last.outcome.retrieved # <<>>
               /\ last.outcome.retrieved = <<>> => result = trimmed
               /\ last.outcome.retrieved # <<>>
                    => /\ SubSeq(result, 1, Len(trimmed) + 1)
                            = trimmed \o <<SourcesHeader>>
                       /\ Len(ListedFilenames(result)) >= 1
                       /\ Len(result)
                            = Len(trimmed) + 1 + 4 * Len(ListedFilenames(result))

\* an answer with retrieved chunks, and its section
C8_Witness ==
    /\ last.entry = "chat_response"
    /\ last.outcome.kind = "formatted"
    /\ last.outcome.failure = "none"
    /\ Len(last.outcome.retrieved) >= 2
    /\ last.outcome.answer # <<>>
    /\ HasSourcesSection(last.outcome.result)

\* C9: on every entry point an empty or blank message gets the prompt to
\* enter a message, and no retrieval or generator call is made for it.
C9_BlankMessageShortCircuited ==
    (Returned /\ rag_pipeline /\ Strip(last.message) = <<>>)
        => /\ last.outcome.kind = "enter_message"
           /\ last.outcome.retrievals = 0
           /\ last.outcome.generations = 0

\* C10: when loading the persisted index or saving the built index fails (and
\* nothing else does), initialization goes on, with the index rebuilt from the
\* documents, or the placeholder index when there are no documents.
C10_PersistenceFailureFallsBack ==
    (index_origin.failed # {} /\ index_origin.failed \subseteq {"load", "save"})
        => /\ pc # "raised"
           /\ init_error # "documents"
           /\ vectorstore =
                Vectorstore(IF LoadedDocuments(documents_dir) = <<>>
                            THEN <<PlaceholderChunk>> ELSE BuiltFromDocuments)

\* the settings generate_response read during the call: advanced_chat installs
\* its use_history parameter for the call and restores the setting afterwards
HistoryEnabled ==
    IF last.entry = "advanced_chat" THEN last.params.use_history
    ELSE settings.USE_CONVERSATION_HISTORY

\* the history generate_response received from its caller
HistoryReceived ==
    IF last.entry = "advanced_chat" /\ ~last.params.use_history
    THEN NoHistory ELSE last.history

\* the last k elements of a list
LastTurns(turns, k) == SubSeq(turns, Len(turns) - k + 1, Len(turns))

\* C11: with history inclusion enabled and a non-empty history, the preamble
\* holds exactly the last min(N, len(history)) turns, N = MAX_HISTORY_TURNS,
\* in their order, for every N >= 0; with inclusion disabled or an empty
\* history the query is passed on unchanged.
C11_PreambleHasLastMinTurns ==
    (FromGenerate /\ last.outcome.retrievals > 0)
        => LET turns == HistoryReceived.turns
               n == Min(settings.MAX_HISTORY_TURNS, Len(turns))
           IN  last.outcome.formatted_query =
                 IF HistoryEnabled /\ HistoryReceived.given /\ Len(turns) > 0
                 THEN <<HistoryHeader>> \o HistoryContext(LastTurns(turns, n))
                        \o <<"\n\nCurrent Question: ">> \o last.message
                 ELSE last.message

\* the index operations _load_and_process_documents attempted: the steps that
\* failed when attempted and the ones that succeeded.  A failed save means the
\* build before it succeeded; the placeholder that ends the step is the second
\* attempt when the first one failed
IndexAttempts ==
    (index_origin.failed \cap {"load", "build", "placeholder", "placeholder_again"})
    \cup (IF "save" \in index_origin.failed THEN {"build"} ELSE {})
    \cup (CASE index_origin.how = "loaded" -> {"load"}
            [] index_origin.how = "built" -> {"build"}
            [] index_origin.how = "placeholder" ->
                 IF "placeholder" \in index_origin.failed
                 THEN {"placeholder_again"} ELSE {"placeholder"}
            [] OTHER -> {})

\* C12: nothing is attempted a second time: a call makes at most one retrieval
\* and at most one generator request, and a start-up attempts the index load,
\* the build from the documents and the placeholder build at most once each,
\* whether or not they fail.
C12_NothingReattempted ==
    /\ last.outcome.retrievals <= 1
    /\ last.outcome.generations <= 1
    /\ "placeholder_again" \notin IndexAttempts

\* C13: the generator the pipeline holds after _setup_llm is the one named by
\* MODEL_PROVIDER: the Ollama variant for "ollama", the local one otherwise.
C13_GeneratorFollowsProvider ==
    llm # NoLlm
        => llm.kind = IF settings.MODEL_PROVIDER = "ollama" THEN "ollama" ELSE "qwen"

\* C14: constructing an OllamaLLM first queries the catalog; a pull is issued
\* only when the requested identifier is absent from the catalog returned, and
\* the instance is obtained only after the pull returned; when the catalog
\* query or the pull fails, construction raises and no instance is obtained.
C14_ListThenPullIfAbsent ==
    ollama.pc # "unused"
        => /\ ollama.requests # <<>> => Head(ollama.requests) = "list"
           /\ ollama.pull # "none"
                => /\ ollama.model \notin ollama.listed
                   /\ SubSeq(ollama.requests, 1, 2) = <<"list", "pull">>
           /\ (ollama.pull = "none" /\ ollama.model \notin ollama.listed)
                => ~ollama.instance
           /\ ollama.instance
                => /\ ollama.pull \in {"none", "ok"}
                   /\ ollama.error = NoError
                   /\ ollama.model \in AvailableModels(ollama.catalog)
           /\ ollama.pull = "pending" => ~ollama.instance /\ ollama.pc = "pulling"
           /\ (ollama.pull = "failed" \/ ollama.pc = "raised")
                => /\ ~ollama.instance
                   /\ ollama.error \in Errors
                   /\ "generate" \notin Range(ollama.requests)

\* the identifier was absent, the pull returned, and the instance exists
C14_Witness ==
    /\ ollama.pc = "constructed"
    /\ ollama.instance
    /\ ollama.pull = "ok"
    /\ ollama.requests = <<"list", "pull">>
    /\ ollama.model = "llama3"
    /\ [fmt |-> "name", id |-> "llama3:latest"] \in ollama.catalog

\* C15: _stream never raises; when the transport fails, before the first
\* fragment or after some, exactly one error-text fragment follows the tokens
\* yielded so far and the stream ends; without a failure no error fragment is
\* yielded.
C15_StreamYieldsOneErrorFragment ==
    ollama.pc # "unused"
        => LET n == Len(ollama.fragments)
               tokens == IF ollama.failed THEN n - 1 ELSE n
           IN  /\ ollama.pc # "stream_raised"
               /\ \A i \in 1..tokens : ollama.fragments[i] = "token"
               /\ ollama.failed
                    => /\ ollama.pc = "stream_done"
                       /\ n >= 1
                       /\ ollama.fragments[n] = "Error: Failed to stream response. ..."

\* the transport failed after two tokens
C15_Witness ==
    /\ ollama.pc = "stream_done"
    /\ ollama.failed
    /\ Len(ollama.fragments) = 3
    /\ ollama.fragments[2] = "token"

\* C16 as claimed: after any sequence of VectorStore operations, every chunk
\* that was added and not explicitly deleted is still held by the index.
C16_AddedStaysHeld ==
    store.pc = "store"
        => \A id \in (1..(store.next_id - 1)) \ store.deleted :
              id \in Ids(store.index.entries)

\* C16 amended: the index holds exactly the chunks given to it by the create
\* or load that produced it and by the adds since, minus the ones deleted
\* since (create_from_* and a successful load replace the index held before);
\* get_vector_count counts them and a similarity search returns them.
C16_CurrentIndexChunksHeld ==
    store.pc = "store"
        => /\ Ids(store.index.entries) = store.live
           /\ GetVectorCount(store.index) = Cardinality(store.live)
           /\ \A q \in Queries :
                Ids(SimilaritySearch(store.index, q, MaxChunks)) = store.live

\* an add after a delete: two chunks are held, one was deleted
C16_Witness ==
    /\ store.pc = "store"
    /\ store.last.op = "add"
    /\ store.last.ok
    /\ store.deleted # {}
    /\ Cardinality(store.live) = 2

C18_FailedLoadKeepsIndex ==
    [][(store.pc = "store" /\ store'.last.op = "load" /\ ~store'.last.ok)
         => /\ ~store'.last.raised
            /\ store'.last.cause \in {"missing", "no_index", "error"}
            /\ store'.index = store.index]_vars

\* load on a missing path while chunks are held
C18_Witness ==
    /\ store.pc = "store"
    /\ store.last.op = "load"
    /\ ~store.last.ok
    /\ store.last.cause = "missing"
    /\ Len(store.index.entries) >= 2

\* C19: when the start-up builds the index from the documents directory,
\* every .txt, .md and .pdf file under it has its chunks in the index.
C19_EveryFileContributes ==
    index_origin.how = "built"
        => \A f \in documents_dir.files :
              f.ext \in {"txt", "md", "pdf"}
                 => Chunk(f.source) \in Range(vectorstore.chunks)

\* the chunks of the result cut from (or being) the document at position d
ChunksOf(d) == SelectSeq(loader.chunks, LAMBDA c : c.of = d)

\* C20: every chunk split_documents returns carries the metadata of the
\* document it was cut from and is a piece of its text, and every chunk but
\* possibly the last one of a document has at most chunk_size characters, on
\* the normal return (where the last one has too) and on the error path.
C20_ChunksBoundedWithMetadata ==
    loader.pc = "returned"
        => /\ \A k \in DOMAIN loader.chunks :
                LET c == loader.chunks[k]
                IN  /\ c.of \in DOMAIN loader.documents
                    /\ c.metadata = loader.documents[c.of].metadata
                    /\ Contains(loader.documents[c.of].page_content, c.page_content)
                    /\ loader.path = "split"
                         => Len(c.page_content) <= loader.chunk_size
           /\ \A d \in DOMAIN loader.documents :
                \A k \in 1..(Len(ChunksOf(d)) - 1) :
                    Len(ChunksOf(d)[k].page_content) <= loader.chunk_size
           /\ \A k \in 1..(Len(loader.chunks) - 1) :
                loader.chunks[k].of <= loader.chunks[k + 1].of
           /\ loader.path = "except" => loader.chunks = loader.documents
           /\ loader.documents = <<>> => loader.chunks = <<>>

\* two documents, the first cut into several chunks
C20_Witness ==
    /\ loader.pc = "returned"
    /\ loader.path = "split"
    /\ Len(loader.documents) = 2
    /\ Len(ChunksOf(1)) >= 2
    /\ Len(ChunksOf(2)) >= 2
    /\ Len(loader.documents[1].page_content) > loader.chunk_size

\* the parameters the claim names
C21_Parameters ==
    {"model", "temperature", "top_p", "max_tokens", "timeout", "keep_alive", "base_url"}

\* C21: from_settings of either generator variant returns, unless the
\* construction itself fails, an instance whose parameters equal the given
\* overrides, and the values of the settings object where none is given.
C21_OverridesWinElseSettings ==
    (factory.pc = "returned" /\ factory.result.outcome # "init_raised")
        => /\ factory.result.outcome = "instance"
           /\ \A keyword \in C21_Parameters \cap ExplicitKeywords(factory.variant) :
                factory.result.params[keyword] =
                    IF keyword \in DOMAIN factory.kwargs
                    THEN OverrideValue(keyword)
                    ELSE SettingValue(SettingFor(keyword))

\* C22: the generation of an advanced_chat message runs with the temperature
\* and the max-tokens value that were supplied with that message.
C22_GeneratorUsesSuppliedParams ==
    (last.entry = "advanced_chat" /\ last.outcome.generations > 0)
        => /\ last.outcome.used.temperature = last.params.temperature
           /\ last.outcome.used.max_new_tokens = last.params.max_tokens

\* C23: with one request at a time, an advanced_chat call that returns leaves
\* TEMPERATURE, MAX_NEW_TOKENS and USE_CONVERSATION_HISTORY as they were before
\* the call, whatever it returns.
C23_SettingsRestored ==
    [][(last.entry = "advanced_chat" /\ last.outcome.kind = "pending"
          /\ last'.outcome.kind # "pending")
         => /\ settings'.TEMPERATURE = settings.TEMPERATURE
            /\ settings'.MAX_NEW_TOKENS = settings.MAX_NEW_TOKENS
            /\ settings'.USE_CONVERSATION_HISTORY = settings.USE_CONVERSATION_HISTORY]_vars

\* an advanced_chat call whose parameters all differ from the settings has
\* returned the apology of a failed retrieval, and the settings are the
\* start-up ones
C23_Witness ==
    /\ last.entry = "advanced_chat"
    /\ last.outcome.kind = "apology"
    /\ last.params.temperature # DefaultTemperature
    /\ last.params.max_tokens # DefaultMaxNewTokens
    /\ last.params.use_history # settings.USE_CONVERSATION_HISTORY
    /\ settings.TEMPERATURE = DefaultTemperature
    /\ settings.MAX_NEW_TOKENS = DefaultMaxNewTokens

\* the statements a call is at once its generate_response has returned
AfterGenerate ==
    {"restore_temperature", "restore_max_new_tokens", "restore_use_history",
     "returned"}

\* C24: when two advanced_chat calls overlap, (a) the generate_response of each
\* call finds its own use_history value in the settings, and (b) once both
\* calls have returned the three settings have the values they had before
\* either call started.
C24_OverlappingCallsIsolated ==
    /\ \A t \in Workers :
         threads.calls[t].pc \in AfterGenerate
            => threads.calls[t].seen_use_history = threads.calls[t].params.use_history
    /\ (\A t \in Workers : threads.calls[t].pc = "returned")
         => /\ settings.TEMPERATURE = threads.before.TEMPERATURE
            /\ settings.MAX_NEW_TOKENS = threads.before.MAX_NEW_TOKENS
            /\ settings.USE_CONVERSATION_HISTORY =
                   threads.before.USE_CONVERSATION_HISTORY

\* the steps of _initialize_pipeline that have succeeded, by position
StepsDone ==
    CASE pc = "start" -> 0
      [] pc = "embeddings_done" -> 1
      [] pc = "documents_done" -> 2
      [] pc = "llm_done" -> 3
      [] OTHER -> 4

IndexStepReturned == index_origin.how # "none"

\* C26: a run that finds a persisted index does not read the documents
\* directory and leaves the index file as it is, whatever the directory holds
\* by then; the placeholder index is never written to disk; so a run that
\* finds no index file and a directory with documents builds its index from
\* them (when no step fails).
C26_PersistedIndexWinsPlaceholderNeverSaved ==
    /\ index_origin.disk_before.exists
         => /\ index_faiss = index_origin.disk_before
            /\ index_origin.how \in {"none", "loaded"}
            /\ vectorstore.held
                 => vectorstore.chunks = index_origin.disk_before.chunks
    /\ index_origin.how = "placeholder"
         => /\ index_faiss = index_origin.disk_before
            /\ ~index_faiss.exists
    /\ (/\ IndexStepReturned
        /\ ~index_origin.disk_before.exists
        /\ documents_dir.exists
        /\ documents_dir.files # {}
        /\ index_origin.failed = {})
         => /\ index_origin.how = "built"
            /\ index_faiss.exists

\* every fragment has between 1 and chunk_size characters
FragmentsSized(fragments) ==
    \A k \in DOMAIN fragments :
        Len(fragments[k]) >= 1 /\ Len(fragments[k]) <= StreamChunkSize

\* the most fragments a text of n characters is cut into
MostFragments(n) == (n + StreamChunkSize - 1) \div StreamChunkSize

\* C27 as stated: every finished stream of the local-inference variant has
\* fragments of 1 to 50 characters whose concatenation is the text the call
\* returned (none for an empty text), after exactly one decode.
C27_StreamIsChunkedCallText ==
    qwen.pc = "done"
        => /\ FragmentsSized(qwen.fragments)
           /\ Flatten(qwen.fragments) = qwen.response
           /\ qwen.decodes = 1

\* C27 amended: every stream runs exactly one decode and never yields more
\* than one fragment per 50 characters plus one; a stream no callback
\* interrupted is as stated; a stream whose token callback raised yields the
\* fragments before that, which are a prefix of the text, and then exactly one
\* error fragment, and ends.
C27_StreamChunkedOrOneError ==
    /\ qwen.pc # "created" => qwen.decodes = 1
    /\ qwen.pc = "created" => qwen.decodes = 0 /\ qwen.fragments = <<>>
    /\ Len(qwen.fragments) <= MostFragments(Len(qwen.response)) + 1
    /\ (qwen.pc = "done" /\ ~qwen.failed)
         => /\ FragmentsSized(qwen.fragments)
            /\ Flatten(qwen.fragments) = qwen.response
            /\ Len(qwen.fragments) = MostFragments(Len(qwen.response))
            /\ (qwen.response = <<>>) = (qwen.fragments = <<>>)
    /\ (qwen.pc = "done" /\ qwen.failed)
         => LET n == Len(qwen.fragments)
                before == SubSeq(qwen.fragments, 1, n - 1)
            IN  /\ n >= 1
                /\ qwen.run_manager
                /\ \E e \in Errors : qwen.fragments[n] = QwenErrorFragment(e)
                /\ FragmentsSized(before)
                /\ Flatten(before) =
                       SubSeq(qwen.response, 1, Len(Flatten(before)))
                /\ Len(Flatten(before)) < Len(qwen.response)

\* a finished stream of a text of more than two chunks: two full fragments
\* and a shorter last one
C27_Witness ==
    /\ qwen.pc = "done"
    /\ ~qwen.failed
    /\ Len(qwen.response) > 2 * StreamChunkSize
    /\ Len(qwen.fragments) = 3
    /\ Len(qwen.fragments[3]) < StreamChunkSize

\* C28: add_documents returns True exactly when documents were added to the
\* index and False in every other case, and after a True the index saved at
\* the vector-store path holds the chunks of the in-memory index.
C28_TrueIffAddedAndPersisted ==
    last.returned # "pending"
        => /\ (last.returned = "True") = (vectorstore # last.before)
           /\ last.returned # "True" => last.returned = "False"
           /\ last.returned = "True"
                => /\ index_faiss.exists
                   /\ index_faiss.chunks = vectorstore.chunks

\* the numbers in front of the entries of the Sources section, in order: an
\* entry is number, ". ", filename, "\n"
RECURSIVE EntryNumbers(_)
EntryNumbers(lines) ==
    IF Len(lines) < 4 THEN <<>>
    ELSE <<lines[1]>> \o EntryNumbers(SubSeq(lines, 5, Len(lines)))

\* C29: the entries of the Sources section are numbered 1, 2, ..., n in order,
\* n being the number of entries listed, for every list of retrieved chunks.
C29_SourcesNumberedConsecutively ==
    (last.entry = "_format_response" /\ HasSourcesSection(last.outcome.result))
        => LET numbers == EntryNumbers(SourcesSection(last.outcome.result))
           IN  \A k \in DOMAIN numbers : numbers[k] = NumStr(k)

====
